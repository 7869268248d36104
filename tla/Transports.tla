------------------------------ MODULE Transports ------------------------------
(***************************************************************************)
(* The transports of the server, each by itself: they share no state, and  *)
(* which one runs is chosen at the start, as in ServerParts.               *)
(***************************************************************************)
EXTENDS UdpTransport, FragmentTransport, CodecTransport

VARIABLE part

TransportsInit ==
  /\ part \in {"udp", "fragments", "codec"}
  /\ Init /\ FragInit /\ CodecInit

TransportsNext ==
  /\ UNCHANGED part
  /\ \/ part = "udp" /\ Next /\ UNCHANGED <<fragVars, codecVars>>
     \/ part = "fragments" /\ FragNext /\ UNCHANGED <<vars, codecVars>>
     \/ part = "codec" /\ CodecNext /\ UNCHANGED <<vars, fragVars>>

TransportsSpec == TransportsInit /\ [][TransportsNext]_<<part, vars, fragVars, codecVars>>

\* the types of all the transports
TransportsTypeOK == TypeOK /\ FragTypeOK /\ CodecTypeOK
===============================================================================
