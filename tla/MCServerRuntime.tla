--------------------------- MODULE MCServerRuntime ---------------------------
(* One client, one entity, every operation of the runtime, any acknowledgement. *)
EXTENDS ServerRuntime

MCPayloadBytes == [a |-> 4, b |-> 2, c |-> 1]
MCPayload == DOMAIN MCPayloadBytes

\* a payload per tier; spawn_entity and set_entity_payload give its full one to all
MCVariants == { [Full |-> "a", Reduced |-> "b", Minimal |-> "c"] }
===============================================================================
