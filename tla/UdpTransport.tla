----------------------------- MODULE UdpTransport -----------------------------
(***************************************************************************)
(* gridwake-server's UdpByteTransport: two maps, from clients to addresses *)
(* for sending and from addresses to clients for receiving, that every     *)
(* registration has to keep each other's inverse, and a nonblocking socket *)
(* whose datagrams are attributed to clients when they are drained.        *)
(***************************************************************************)
EXTENDS Integers, Sequences, SequencesExt, Maps

CONSTANTS
  Client,     \* ClientId
  Address,    \* SocketAddr
  MaxQueue    \* bound of the model on datagrams in the socket's queue

ASSUME UdpAssumption == MaxQueue \in Nat

VARIABLES
  clients,    \* UdpByteTransport::clients
  peers,      \* UdpByteTransport::peers
  queue,      \* the socket: senders of the datagrams not yet drained
  received,   \* what the last drain returned, per datagram its client
  errors      \* UdpByteTransport::errors, how often each came up does not matter

vars == <<clients, peers, queue, received, errors>>

UnknownClient(c) == [kind |-> "UnknownClient", client |-> c]
UnknownPeer(a) == [kind |-> "UnknownPeer", peer |-> a]
SendError(c) == [kind |-> "Send", client |-> c]
ReceiveError == [kind |-> "Receive"]

UdpTransportError ==
  {UnknownClient(c) : c \in Client} \cup {UnknownPeer(a) : a \in Address}
    \cup {SendError(c) : c \in Client} \cup {ReceiveError}

TypeOK ==
  /\ \E C \in SUBSET Client : clients \in [C -> Address]
  /\ \E A \in SUBSET Address : peers \in [A -> Client]
  /\ queue \in Seq(Address)
  /\ received \in Seq(Client)
  /\ errors \subseteq UdpTransportError

Init ==
  /\ clients = EmptyMap
  /\ peers = EmptyMap
  /\ queue = <<>>
  /\ received = <<>>
  /\ errors = {}

-------------------------------------------------------------------------------
\* Mutant: the client's earlier address still leads to it.
PeersWithOldAddress(c) == peers

\* the peer entry of the address c had goes, then c takes a over
PeersWithoutOldAddress(c) == Drop(peers, {clients[d] : d \in DOMAIN clients \cap {c}})

\* Mutant: the address's earlier client is still sent to there.
ClientsWithOldOwner(c, a) == Put(clients, c, a)

ClientsWithoutOldOwner(c, a) ==
  LET freed == PeersWithoutOldAddress(c)
      owners == {freed[b] : b \in DOMAIN freed \cap {a}}
  IN  Drop(Put(clients, c, a), owners \ {c})

RegisterClient(c, a) ==
  /\ clients' = ClientsWithoutOldOwner(c, a)
  /\ peers' = Put(PeersWithoutOldAddress(c), a, c)
  /\ UNCHANGED <<queue, received, errors>>

RemoveClient(c) ==
  /\ c \in DOMAIN clients
  /\ clients' = Drop(clients, {c})
  /\ peers' = IF clients[c] \in DOMAIN peers /\ peers[clients[c]] = c
                THEN Drop(peers, {clients[c]})
                ELSE peers
  /\ UNCHANGED <<queue, received, errors>>

-------------------------------------------------------------------------------
\* Datagrams sent leave for the address; the socket may refuse one.
SendBytes(c) ==
  /\ errors' \in IF c \in DOMAIN clients THEN {errors, errors \cup {SendError(c)}}
                                         ELSE {errors \cup {UnknownClient(c)}}
  /\ UNCHANGED <<clients, peers, queue, received>>

\* The network hands the socket a datagram.
Arrive(a) ==
  /\ Len(queue) < MaxQueue
  /\ queue' = Append(queue, a)
  /\ UNCHANGED <<clients, peers, received, errors>>

\* Senders that are registered when the socket is read, in order
Attribute(found, a) == IF a \in DOMAIN peers THEN Append(found, peers[a]) ELSE found

Attributed(senders) == FoldLeft(Attribute, <<>>, senders)

Strangers(senders) == {UnknownPeer(a) : a \in Range(senders) \ DOMAIN peers}

\* drain_received_bytes: until the socket is empty, or fails after n datagrams
DrainReceivedBytes ==
  \/ /\ received' = Attributed(queue)
     /\ errors' = errors \cup Strangers(queue)
     /\ queue' = <<>>
     /\ UNCHANGED <<clients, peers>>
  \/ \E n \in 0..Len(queue) :
       LET read == SubSeq(queue, 1, n)
       IN  /\ received' = Attributed(read)
           /\ errors' = errors \cup Strangers(read) \cup {ReceiveError}
           /\ queue' = SubSeq(queue, n + 1, Len(queue))
           /\ UNCHANGED <<clients, peers>>

TakeErrors == errors' = {} /\ UNCHANGED <<clients, peers, queue, received>>

Next ==
  \/ \E c \in Client :
       \/ \E a \in Address : RegisterClient(c, a)
       \/ RemoveClient(c)
       \/ SendBytes(c)
  \/ \E a \in Address : Arrive(a)
  \/ DrainReceivedBytes
  \/ TakeErrors

Spec == Init /\ [][Next]_vars

-------------------------------------------------------------------------------

(* The two maps are each other's inverse after any sequence of registering,   *)
(* moving to a new address, taking another's address over and removing: a     *)
(* datagram is never attributed to a client that is sent to elsewhere.        *)
MapsAreInverse ==
  /\ \A c \in DOMAIN clients : clients[c] \in DOMAIN peers /\ peers[clients[c]] = c
  /\ \A a \in DOMAIN peers : peers[a] \in DOMAIN clients /\ clients[peers[a]] = a

(* The maps implement one address book: a registration takes exactly the      *)
(* client's and the address's earlier pairs away, and nobody else's.          *)
Book == INSTANCE AddressBook WITH book <- {<<c, clients[c]>> : c \in DOMAIN clients}

ImplementsAddressBook == Book!Spec
===============================================================================
