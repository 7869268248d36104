----------------------------- MODULE MCTransports -----------------------------
(* Deltas, messages and payloads on both sides of the transports' limits. *)
EXTENDS Transports

CONSTANTS e1, e2, e3, e4

\* Deltas on both sides of every limit of a datagram of 64 bytes: a fragment has
\* room for 43 bytes of operations without a baseline, 35 with one.
Full(ops) == [baseline |-> FALSE, ops |-> ops]
CatchUp(ops) == [baseline |-> TRUE, ops |-> ops]

MCHanded == {
  Full(<<Write(e1, 34)>>),                                    \* 64 bytes, whole
  CatchUp(<<Write(e1, 22), Write(e2, 22)>>),                  \* two full fragments
  Full(<<Exit(e1), Write(e2, 21), Write(e3, 20), Exit(e4)>>), \* two operations in each
  Full(<<Write(e1, 20), Write(e2, 20), Write(e3, 5)>>),       \* three fragments
  CatchUp(<<Write(e1, 40), Write(e2, 20)>>),                  \* one of two fits: alone
  CatchUp(<<Write(e1, 40)>>),                                 \* nothing to send
  Full(<<Write(e1, 30), Write(e2, 31), Exit(e3)>>),           \* the one between left out
  Full(<<Write(e1, 20), Write(e2, 20), Write(e3, 20), Write(e4, 20)>>)  \* too many
}

\* One entity per tier, messages of every kind, payloads on both sides of each limit.
Here == <<3, 1, 4>>
Look(lod) == [kind |-> 1, team |-> 2, lod |-> lod, position |-> Here, yaw |-> 5,
              radius |-> 60, phase |-> 7, style |-> 9]
MCDemoPayloads == {Look(lod) : lod \in 0..2}
Raw(n) == [i \in 1..n |-> Field(1, 0)]

MCOps(e) ==
  {DespawnOp(e), WriteOp("SpawnOrEnter", e, <<>>), WriteOp("Update", e, Raw(41))}
    \cup {WriteOp("Update", e, EncodeDemoPayload(p)) : p \in MCDemoPayloads}

MCOpLists == {<<>>} \cup {<<op>> : op \in MCOps(1)} \cup
  {<<op, DespawnOp(2)>> : op \in MCOps(1)} \cup {<<DespawnOp(1), DespawnOp(2), DespawnOp(3)>>}

MCServerMessages ==
  {MetricsMessage([f \in Range(MetricsFields) |-> Len(f)])}
    \cup {DeltaMessage(6, baseline, ops) : baseline \in {NoBaseline, 5}, ops \in MCOpLists}
    \cup {FragmentMessage(6, baseline, 1, 3, ops) : baseline \in {NoBaseline, 5}, ops \in MCOpLists}

MCGodotInputs == {[position |-> Here, yaw |-> 5, fire |-> fire] : fire \in BOOLEAN}
MCPayloads == {Raw(n) : n \in {0, 30, 31, 41}}
===============================================================================
