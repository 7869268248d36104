-------------------------- MODULE Transports_proofs --------------------------
(***************************************************************************)
(* The address maps of the UDP transport, for any clients and addresses;   *)
(* the fragmenting transport with its client, for any deltas and limits;   *)
(* the codec around the memory transport, for any payloads and limits.     *)
(***************************************************************************)
EXTENDS Transports, Folds_proofs

-------------------------------------------------------------------------------
(* UdpTransport: the address maps *)

(* The maps alone: queue and errors have no part in it. *)
IInv ==
  /\ \E C \in SUBSET Client : clients \in [C -> Address]
  /\ \E A \in SUBSET Address : peers \in [A -> Client]
  /\ MapsAreInverse

maps == <<clients, peers>>

LEMMA InitIInv == Init => IInv
<1> SUFFICES ASSUME Init PROVE IInv
  OBVIOUS
<1>1. clients \in [{} -> Address] /\ peers \in [{} -> Client]
  BY DEF Init, EmptyMap
<1>2. QED BY <1>1 DEF Init, IInv, MapsAreInverse

LEMMA MapsTyped ==
  ASSUME IInv
  PROVE  /\ DOMAIN clients \subseteq Client /\ \A d \in DOMAIN clients : clients[d] \in Address
         /\ DOMAIN peers \subseteq Address /\ \A b \in DOMAIN peers : peers[b] \in Client
         /\ \A d \in DOMAIN clients : clients[d] \in DOMAIN peers /\ peers[clients[d]] = d
         /\ \A b \in DOMAIN peers : peers[b] \in DOMAIN clients /\ clients[peers[b]] = b
BY DEF IInv, MapsAreInverse

\* Who has which address after a registration
LEMMA Registered ==
  ASSUME IInv, NEW c \in Client, NEW a \in Address, RegisterClient(c, a)
  PROVE  /\ DOMAIN clients' = {d \in DOMAIN clients : clients[d] # a} \cup {c}
         /\ \A d \in DOMAIN clients' : clients'[d] = IF d = c THEN a ELSE clients[d]
         /\ clients' = [d \in DOMAIN clients' |-> clients'[d]]
         /\ DOMAIN peers' = {b \in DOMAIN peers : peers[b] # c} \cup {a}
         /\ \A b \in DOMAIN peers' : peers'[b] = IF b = a THEN c ELSE peers[b]
         /\ peers' = [b \in DOMAIN peers' |-> peers'[b]]
<1> DEFINE old == {clients[d] : d \in DOMAIN clients \cap {c}}
           freed == PeersWithoutOldAddress(c)
           owners == {freed[b] : b \in DOMAIN freed \cap {a}} \ {c}
<1>1. /\ DOMAIN freed = DOMAIN peers \ old
      /\ \A b \in DOMAIN freed : freed[b] = peers[b]
  BY DEF PeersWithoutOldAddress, Drop, Restrict
<1>2. DOMAIN peers \ old = {b \in DOMAIN peers : peers[b] # c}
  BY DEF IInv, MapsAreInverse
<1>3. owners = {d \in DOMAIN clients : d # c /\ clients[d] = a}
  <2>1. \A d \in owners : d \in DOMAIN clients /\ d # c /\ clients[d] = a
    BY <1>1 DEF IInv, MapsAreInverse
  <2>2. ASSUME NEW d \in DOMAIN clients, d # c, clients[d] = a
        PROVE  d \in owners
    BY <1>1, <1>2, <2>2 DEF IInv, MapsAreInverse
  <2>3. QED BY <2>1, <2>2
<1>4. clients' = Restrict(Put(clients, c, a), DOMAIN Put(clients, c, a) \ owners)
  BY DEF RegisterClient, ClientsWithoutOldOwner, Drop
<1>5. peers' = Put(freed, a, c)
  BY DEF RegisterClient
<1> HIDE DEF owners, freed, old
<1>6. /\ DOMAIN clients' = (DOMAIN clients \cup {c}) \ owners
      /\ \A d \in DOMAIN clients' : clients'[d] = IF d = c THEN a ELSE clients[d]
      /\ clients' = [d \in DOMAIN clients' |-> clients'[d]]
  BY <1>4 DEF Put, Restrict
<1>7. /\ DOMAIN peers' = DOMAIN freed \cup {a}
      /\ \A b \in DOMAIN peers' : peers'[b] = IF b = a THEN c ELSE freed[b]
      /\ peers' = [b \in DOMAIN peers' |-> peers'[b]]
  BY <1>5 DEF Put
<1>8. (DOMAIN clients \cup {c}) \ owners = {d \in DOMAIN clients : clients[d] # a} \cup {c}
  BY <1>3
<1>9. QED BY <1>1, <1>2, <1>6, <1>7, <1>8

LEMMA RegisterKeeps ==
  ASSUME IInv, NEW c \in Client, NEW a \in Address, RegisterClient(c, a)
  PROVE  IInv'
<1>1. /\ DOMAIN clients' = {d \in DOMAIN clients : clients[d] # a} \cup {c}
      /\ \A d \in DOMAIN clients' : clients'[d] = IF d = c THEN a ELSE clients[d]
      /\ clients' = [d \in DOMAIN clients' |-> clients'[d]]
  BY ZenonT(60), Registered
<1>2. /\ DOMAIN peers' = {b \in DOMAIN peers : peers[b] # c} \cup {a}
      /\ \A b \in DOMAIN peers' : peers'[b] = IF b = a THEN c ELSE peers[b]
      /\ peers' = [b \in DOMAIN peers' |-> peers'[b]]
  BY Registered
<1>3. clients' \in [DOMAIN clients' -> Address] /\ DOMAIN clients' \subseteq Client
  BY <1>1, MapsTyped
<1>4. peers' \in [DOMAIN peers' -> Client] /\ DOMAIN peers' \subseteq Address
  BY <1>2, MapsTyped
<1>5. MapsAreInverse'
  <2>1. ASSUME NEW d \in DOMAIN clients'
        PROVE  clients'[d] \in DOMAIN peers' /\ peers'[clients'[d]] = d
    BY <1>1, <1>2, MapsTyped
  <2>2. ASSUME NEW b \in DOMAIN peers'
        PROVE  peers'[b] \in DOMAIN clients' /\ clients'[peers'[b]] = b
    BY <1>1, <1>2, MapsTyped
  <2>3. QED BY <2>1, <2>2 DEF MapsAreInverse
<1>6. QED BY <1>3, <1>4, <1>5 DEF IInv

\* A client removed takes its address with it.
LEMMA Removed ==
  ASSUME IInv, NEW c \in Client, RemoveClient(c)
  PROVE  /\ DOMAIN clients' = DOMAIN clients \ {c}
         /\ \A d \in DOMAIN clients' : clients'[d] = clients[d]
         /\ clients' = [d \in DOMAIN clients' |-> clients'[d]]
         /\ DOMAIN peers' = {b \in DOMAIN peers : peers[b] # c}
         /\ \A b \in DOMAIN peers' : peers'[b] = peers[b]
         /\ peers' = [b \in DOMAIN peers' |-> peers'[b]]
<1>1. /\ DOMAIN clients' = DOMAIN clients \ {c}
      /\ \A d \in DOMAIN clients' : clients'[d] = clients[d]
      /\ clients' = [d \in DOMAIN clients' |-> clients'[d]]
  BY DEF RemoveClient, Drop, Restrict
<1>2. peers' = Drop(peers, {clients[c]})
  BY DEF RemoveClient, IInv, MapsAreInverse
<1>3. /\ DOMAIN peers' = DOMAIN peers \ {clients[c]}
      /\ \A b \in DOMAIN peers' : peers'[b] = peers[b]
      /\ peers' = [b \in DOMAIN peers' |-> peers'[b]]
  BY <1>2 DEF Drop, Restrict
<1>4. DOMAIN peers \ {clients[c]} = {b \in DOMAIN peers : peers[b] # c}
  BY DEF RemoveClient, IInv, MapsAreInverse
<1>5. QED BY <1>1, <1>3, <1>4

LEMMA RemoveKeeps ==
  ASSUME IInv, NEW c \in Client, RemoveClient(c)
  PROVE  IInv'
<1>1. /\ DOMAIN clients' = DOMAIN clients \ {c}
      /\ \A d \in DOMAIN clients' : clients'[d] = clients[d]
      /\ clients' = [d \in DOMAIN clients' |-> clients'[d]]
  BY Removed
<1>2. /\ DOMAIN peers' = {b \in DOMAIN peers : peers[b] # c}
      /\ \A b \in DOMAIN peers' : peers'[b] = peers[b]
      /\ peers' = [b \in DOMAIN peers' |-> peers'[b]]
  BY Removed
<1>3. clients' \in [DOMAIN clients' -> Address] /\ DOMAIN clients' \subseteq Client
  BY <1>1, MapsTyped
<1>4. peers' \in [DOMAIN peers' -> Client] /\ DOMAIN peers' \subseteq Address
  BY <1>2, MapsTyped
<1>5. MapsAreInverse'
  BY <1>1, <1>2, MapsTyped DEF MapsAreInverse
<1>6. QED BY <1>3, <1>4, <1>5 DEF IInv

\* The other operations leave the maps alone.
LEMMA OthersLeaveMaps ==
  ASSUME [Next]_vars,
         ~ \E c \in Client, a \in Address : RegisterClient(c, a),
         ~ \E c \in Client : RemoveClient(c)
  PROVE  UNCHANGED maps
BY DEF Next, vars, maps, SendBytes, Arrive, DrainReceivedBytes, TakeErrors

LEMMA StepIInv == IInv /\ [Next]_vars => IInv'
<1> SUFFICES ASSUME IInv, [Next]_vars PROVE IInv'
  OBVIOUS
<1>1. CASE \E c \in Client, a \in Address : RegisterClient(c, a)
  BY <1>1, RegisterKeeps
<1>2. CASE \E c \in Client : RemoveClient(c)
  BY <1>2, RemoveKeeps
<1>3. CASE UNCHANGED maps
  BY <1>3 DEF maps, IInv, MapsAreInverse
<1>4. QED BY <1>1, <1>2, <1>3, OthersLeaveMaps

(* The maps keep their types and stay inverse: the inductive invariant of the  *)
(* transport.                                                                 *)
THEOREM SpecIInv == Spec => []IInv
BY InitIInv, StepIInv, PTL DEF Spec

(* Sending and receiving agree on who has which address, for any number of    *)
(* clients and addresses and any order of registrations and removals.         *)
THEOREM MapsStayInverse == Spec => []MapsAreInverse
BY SpecIInv, PTL DEF IInv

-------------------------------------------------------------------------------
(* Refinement *)

book == {<<c, clients[c]>> : c \in DOMAIN clients}

LEMMA RegisterRefines ==
  ASSUME IInv, NEW c \in Client, NEW a \in Address, RegisterClient(c, a)
  PROVE  Book!Register(c, a)
<1>1. \A q : q \in book' <=>
        q = <<c, a>> \/ \E d \in DOMAIN clients : /\ d # c /\ clients[d] # a
                                                    /\ q = <<d, clients[d]>>
  <2>1. /\ DOMAIN clients' = {d \in DOMAIN clients : clients[d] # a} \cup {c}
        /\ \A d \in DOMAIN clients' : clients'[d] = IF d = c THEN a ELSE clients[d]
    BY ZenonT(60), Registered
  <2>2. QED BY <2>1 DEF book
<1>2. \A q : q \in {pair \in book : pair[1] # c /\ pair[2] # a} \cup {<<c, a>>} <=>
        q = <<c, a>> \/ \E d \in DOMAIN clients : /\ d # c /\ clients[d] # a
                                                    /\ q = <<d, clients[d]>>
  BY DEF book
<1>3. book' = {pair \in book : pair[1] # c /\ pair[2] # a} \cup {<<c, a>>}
  BY <1>1, <1>2
<1>4. QED BY <1>3 DEF Book!Register, book

LEMMA RemoveRefines ==
  ASSUME IInv, NEW c \in Client, RemoveClient(c)
  PROVE  Book!Remove(c)
<1>1. \A q : q \in book' <=>
        \E d \in DOMAIN clients : d # c /\ q = <<d, clients[d]>>
  <2>1. /\ DOMAIN clients' = DOMAIN clients \ {c}
        /\ \A d \in DOMAIN clients' : clients'[d] = clients[d]
    BY Removed
  <2>2. QED BY <2>1 DEF book
<1>2. \A q : q \in {pair \in book : pair[1] # c} <=>
        \E d \in DOMAIN clients : d # c /\ q = <<d, clients[d]>>
  BY DEF book
<1>3. book' = {pair \in book : pair[1] # c}
  BY <1>1, <1>2
<1>4. QED BY <1>3 DEF Book!Remove, book

(* The transport's maps implement an address book: every registration and     *)
(* removal changes exactly the pairs it should, nothing else changes any.     *)
THEOREM AddressBookImplemented == Spec => ImplementsAddressBook
<1>1. Init => Book!Init
  BY DEF Init, Book!Init, EmptyMap
<1>2. IInv /\ [Next]_vars => [Book!Next]_book
  <2> SUFFICES ASSUME IInv, [Next]_vars PROVE Book!Next \/ UNCHANGED book
    OBVIOUS
  <2>1. CASE \E c \in Client, a \in Address : RegisterClient(c, a)
    BY <2>1, RegisterRefines DEF Book!Next
  <2>2. CASE \E c \in Client : RemoveClient(c)
    BY <2>2, RemoveRefines DEF Book!Next
  <2>3. CASE UNCHANGED maps
    BY <2>3 DEF maps, book
  <2>4. QED BY <2>1, <2>2, <2>3, OthersLeaveMaps
<1>3. QED BY <1>1, <1>2, SpecIInv, PTL DEF Spec, ImplementsAddressBook, Book!Spec, book

-------------------------------------------------------------------------------
(* UdpTransport: types *)

AttributeEquation(f, senders) ==
  f = [s \in SUBSET DOMAIN senders |->
         IF s = {} THEN <<>> ELSE Attribute(f[s \ {Max(s)}], senders[Max(s)])]

LEMMA AttributeType ==
  ASSUME IInv, NEW found \in Seq(Client), NEW a \in Address
  PROVE  Attribute(found, a) \in Seq(Client)
BY MapsTyped DEF Attribute

LEMMA AttributedIsLoop ==
  ASSUME IInv, NEW n \in Nat, NEW senders \in [1..n -> Address]
  PROVE  \E p : /\ p[0] = <<>> /\ \A i \in 1..n : p[i] = Attribute(p[i - 1], senders[i])
                /\ Attributed(senders) = p[n]
<1> DEFINE A == Seq(Client)
           step == [r \in A \X Address |-> Attribute(r[1], r[2])]
<1>1. step \in [A \X Address -> A] /\ <<>> \in A
  BY AttributeType
<1>2. \A found \in A, a \in Address : step[<<found, a>>] = Attribute(found, a)
  OBVIOUS
<1> HIDE DEF A, step
<1>3. PICK f : IsLoop(f, senders, <<>>, step, A, Address)
  BY <1>1, LoopExists
<1>4. AttributeEquation(f, senders)
  <2>1. \A s \in SUBSET DOMAIN senders :
          s # {} => step[<<f[s \ {Max(s)}], senders[Max(s)]>>] = Attribute(f[s \ {Max(s)}], senders[Max(s)])
    BY <1>2, <1>3 DEF IsLoop
  <2>2. QED BY <1>3, <2>1 DEF AttributeEquation, IsLoop
<1> DEFINE h == CHOOSE k : AttributeEquation(k, senders)
<1>5. AttributeEquation(h, senders)
  BY <1>4
<1>6. Attributed(senders) = h[DOMAIN senders]
  BY DEF Attributed, FoldLeft, MapThenFoldSet, AttributeEquation
<1> HIDE DEF h
<1> DEFINE p == [i \in 0..n |-> h[1..i]]
<1>7. p[0] = <<>>
  BY <1>5, FirstTurns DEF AttributeEquation
<1>8. ASSUME NEW i \in 1..n PROVE p[i] = Attribute(p[i - 1], senders[i])
  <2>1. PICK s : s = 1..i
    OBVIOUS
  <2>2. s \in SUBSET DOMAIN senders /\ s # {} /\ Max(s) = i /\ s \ {i} = 1..(i - 1)
    BY <2>1, FirstTurns
  <2>3. h[s] = Attribute(h[s \ {i}], senders[i])
    BY <1>5, <2>2 DEF AttributeEquation
  <2>4. i \in 0..n /\ i - 1 \in 0..n
    OBVIOUS
  <2>5. QED BY <2>1, <2>2, <2>3, <2>4
<1>9. p[n] = Attributed(senders)
  BY <1>6
<1>10. QED BY <1>7, <1>8, <1>9

LEMMA AttributedType ==
  ASSUME IInv, NEW n \in Nat, NEW senders \in [1..n -> Address]
  PROVE  Attributed(senders) \in Seq(Client)
<1>1. PICK p : /\ p[0] = <<>> /\ \A i \in 1..n : p[i] = Attribute(p[i - 1], senders[i])
               /\ Attributed(senders) = p[n]
  BY AttributedIsLoop
<1> DEFINE C == {i \in 0..n : p[i] \notin Seq(Client)}
<1>2. 0 \notin C
  <2>1. p[0] = <<>> /\ <<>> \in Seq(Client)
    BY <1>1
  <2>2. QED BY <2>1
<1>3. ASSUME NEW i \in 1..n, i \in C PROVE i - 1 \in C
  <2>1. p[i] = Attribute(p[i - 1], senders[i])
    BY <1>1
  <2>2. senders[i] \in Address /\ i - 1 \in 0..n
    OBVIOUS
  <2>3. QED BY <1>3, <2>1, <2>2, AttributeType
<1>4. C = {}
  <2>1. C \subseteq 0..n
    OBVIOUS
  <2> HIDE DEF C
  <2>2. QED BY <1>2, <1>3, <2>1, NoFirstFailure
<1>5. QED BY <1>1, <1>4

LEMMA UdpTypeStep ==
  IInv /\ IInv' /\ TypeOK /\ [Next]_vars => TypeOK'
<1> SUFFICES ASSUME IInv, IInv', TypeOK, [Next]_vars PROVE TypeOK'
  OBVIOUS
<1>1. /\ \E C \in SUBSET Client : clients' \in [C -> Address]
      /\ \E A \in SUBSET Address : peers' \in [A -> Client]
  BY DEF IInv
<1>2. ASSUME queue' \in Seq(Address), received' \in Seq(Client), errors' \subseteq UdpTransportError
      PROVE  TypeOK'
  BY <1>1, <1>2 DEF TypeOK
<1>3. /\ queue \in Seq(Address) /\ received \in Seq(Client) /\ errors \subseteq UdpTransportError
  BY DEF TypeOK
<1>4. ASSUME NEW c \in Client, \/ \E a \in Address : RegisterClient(c, a)
                               \/ RemoveClient(c)
                               \/ SendBytes(c)
      PROVE  TypeOK'
  <2>1. UNCHANGED <<queue, received>>
    BY <1>4 DEF RegisterClient, RemoveClient, SendBytes
  <2>2. errors' \subseteq errors \cup {SendError(c), UnknownClient(c)}
    BY <1>4 DEF RegisterClient, RemoveClient, SendBytes
  <2>3. QED BY <1>2, <1>3, <2>1, <2>2 DEF UdpTransportError
<1>5. ASSUME NEW a \in Address, Arrive(a) PROVE TypeOK'
  BY <1>2, <1>3, <1>5 DEF Arrive
<1>6. ASSUME NEW read \in Seq(Address)
      PROVE  /\ Attributed(read) \in Seq(Client)
             /\ Strangers(read) \subseteq UdpTransportError
  <2>1. PICK n \in Nat : n = Len(read)
    OBVIOUS
  <2>2. read \in [1..n -> Address]
    BY <2>1
  <2>3. Range(read) \subseteq Address
    BY <2>2 DEF Range
  <2>4. QED BY <2>2, <2>3, AttributedType DEF Strangers, UdpTransportError
<1>7. ASSUME DrainReceivedBytes PROVE TypeOK'
  <2>1. CASE queue' = <<>> /\ received' = Attributed(queue) /\ errors' = errors \cup Strangers(queue)
    BY <1>2, <1>3, <1>6, <2>1
  <2>2. ASSUME NEW n \in 0..Len(queue), queue' = SubSeq(queue, n + 1, Len(queue)),
               received' = Attributed(SubSeq(queue, 1, n)),
               errors' = errors \cup Strangers(SubSeq(queue, 1, n)) \cup {ReceiveError}
        PROVE  TypeOK'
    <3>1. SubSeq(queue, 1, n) \in Seq(Address) /\ queue' \in Seq(Address)
      BY <1>3, <2>2
    <3>2. ReceiveError \in UdpTransportError
      BY DEF UdpTransportError
    <3>3. QED BY <1>2, <1>3, <1>6, <2>2, <3>1, <3>2
  <2>3. QED BY <1>7, <2>1, <2>2 DEF DrainReceivedBytes
<1>8. CASE TakeErrors
  BY <1>2, <1>3, <1>8 DEF TakeErrors
<1>9. CASE UNCHANGED vars
  BY <1>2, <1>3, <1>9 DEF vars
<1>10. QED BY <1>4, <1>5, <1>7, <1>8, <1>9 DEF Next

(* The address maps, the socket's queue and what is drained of it keep their   *)
(* types: a drained datagram always names a client.                            *)
THEOREM UdpTypeCorrect == Spec => []TypeOK
<1>1. Init => TypeOK
  <2> SUFFICES ASSUME Init PROVE TypeOK
    OBVIOUS
  <2>1. IInv
    BY InitIInv
  <2>2. QED BY <2>1 DEF Init, IInv, TypeOK
<1>2. QED BY <1>1, SpecIInv, UdpTypeStep, PTL DEF Spec

-------------------------------------------------------------------------------
(* FragmentTransport: lengths *)

\* Operations that have a length
Sized(S) == \A op \in S : op.op = "Exit" \/ op.length \in Nat

LEMMA WireLenType ==
  ASSUME NEW S, Sized(S), NEW op \in S
  PROVE  DeltaOpWireLen(op) \in Nat
BY DEF Sized, DeltaOpWireLen

\* g holds the length of the operations with any indices.
HoldsLengths(g, ops) ==
  \A s \in SUBSET DOMAIN ops :
    g[s] = IF s = {} THEN 0 ELSE g[s \ {Max(s)}] + DeltaOpWireLen(ops[Max(s)])

LengthEquation(g, ops) ==
  g = [s \in SUBSET DOMAIN ops |-> IF s = {} THEN 0 ELSE g[s \ {Max(s)}] + DeltaOpWireLen(ops[Max(s)])]

\* What is folded depends on nothing but the operations folded.
LEMMA LengthsAgree ==
  ASSUME NEW ops, NEW more, NEW g, NEW h, HoldsLengths(g, ops), HoldsLengths(h, more),
         NEW T, IsFiniteSet(T), T \subseteq DOMAIN ops, T \subseteq DOMAIN more,
         \A s \in SUBSET T : s # {} => Max(s) \in s,
         \A i \in T : more[i] = ops[i]
  PROVE  h[T] = g[T]
<1> DEFINE C == {s \in SUBSET T : h[s] # g[s]}
<1>1. SUFFICES ASSUME C # {} PROVE FALSE
  OBVIOUS
<1>2. C \subseteq SUBSET T
  OBVIOUS
<1>3. PICK s \in C : \A u \in C : u \subseteq s => u = s
  <2> HIDE DEF C
  <2> QED BY <1>1, <1>2, MinimalSet
<1>4. s \in SUBSET DOMAIN ops /\ s \in SUBSET DOMAIN more /\ s # {}
  BY DEF HoldsLengths
<1>5. Max(s) \in s /\ more[Max(s)] = ops[Max(s)]
  BY <1>4
<1>6. h[s \ {Max(s)}] = g[s \ {Max(s)}]
  BY <1>3, <1>4, <1>5
<1>7. h[s] = g[s]
  BY <1>4, <1>5, <1>6 DEF HoldsLengths
<1>8. QED BY <1>7

LEMMA LengthIsFold ==
  ASSUME NEW S, Sized(S), NEW ops \in Seq(S)
  PROVE  \E g \in [SUBSET (1..Len(ops)) -> Nat] :
           HoldsLengths(g, ops) /\ EncodedOpsLen(ops) = g[1..Len(ops)]
<1> DEFINE n == Len(ops)
           step == [r \in Nat \X S |-> r[1] + DeltaOpWireLen(r[2])]
<1>1. n \in Nat /\ ops \in [1..n -> S] /\ DOMAIN ops = 1..n
  OBVIOUS
<1>2. step \in [Nat \X S -> Nat]
  <2>1. \A m \in Nat, op \in S : m + DeltaOpWireLen(op) \in Nat
    BY WireLenType
  <2>2. QED BY <2>1
<1>3. \A m \in Nat, op \in S : step[<<m, op>>] = m + DeltaOpWireLen(op)
  OBVIOUS
<1> HIDE DEF n, step
<1>4. PICK g \in [SUBSET (1..n) -> Nat] : IsLeftFold(g, n, 0, ops, step)
  BY <1>1, <1>2, LeftFoldExists
<1>5. PICK T : T = 1..n
  OBVIOUS
<1>6. IsFiniteSet(T) /\ DOMAIN ops = T
  BY <1>1, <1>5, FS_Interval
<1>7. \A s \in SUBSET T : s # {} => Max(s) \in s
  <2> SUFFICES ASSUME NEW s \in SUBSET T, s # {} PROVE Max(s) \in s
    OBVIOUS
  <2>1. s \subseteq 0..n
    BY <1>1, <1>5
  <2>2. QED BY <1>1, <2>1, PartOfInterval, MaxOf
<1>8. \A s \in SUBSET T : g[s] = IF s = {} THEN 0 ELSE step[<<g[s \ {Max(s)}], ops[Max(s)]>>]
  BY <1>4, <1>5 DEF IsLeftFold
<1>9. g \in [SUBSET T -> Nat] /\ ops \in [T -> S]
  BY <1>1, <1>4, <1>5
<1>10. \A s \in SUBSET T : s # {} => g[s \ {Max(s)}] \in Nat /\ ops[Max(s)] \in S
  BY <1>7, <1>9
<1>11. HoldsLengths(g, ops)
  BY <1>3, <1>6, <1>8, <1>10 DEF HoldsLengths
<1>12. LengthEquation(g, ops)
  BY <1>6, <1>9, <1>11 DEF HoldsLengths, LengthEquation
<1> DEFINE h == CHOOSE k : LengthEquation(k, ops)
<1>13. LengthEquation(h, ops)
  BY <1>12
<1>14. EncodedOpsLen(ops) = h[DOMAIN ops]
  BY DEF EncodedOpsLen, FoldLeft, MapThenFoldSet, LengthEquation
<1> HIDE DEF h
<1>15. HoldsLengths(h, ops)
  BY <1>13 DEF HoldsLengths, LengthEquation
<1>16. h[T] = g[T]
  BY <1>6, <1>7, <1>11, <1>15, LengthsAgree
<1>17. EncodedOpsLen(ops) = g[1..n]
  BY <1>5, <1>6, <1>14, <1>16
<1>18. QED BY <1>11, <1>17 DEF n

LEMMA LengthType ==
  ASSUME NEW S, Sized(S), NEW ops \in Seq(S)
  PROVE  EncodedOpsLen(ops) \in Nat
<1>1. PICK g \in [SUBSET (1..Len(ops)) -> Nat] : EncodedOpsLen(ops) = g[1..Len(ops)]
  BY LengthIsFold
<1>2. 1..Len(ops) \in SUBSET (1..Len(ops))
  OBVIOUS
<1>3. QED BY <1>1, <1>2

LEMMA LengthEmpty == EncodedOpsLen(<<>>) = 0
<1>1. Sized({}) /\ <<>> \in Seq({})
  BY DEF Sized
<1>2. PICK g \in [SUBSET (1..Len(<<>>)) -> Nat] :
        HoldsLengths(g, <<>>) /\ EncodedOpsLen(<<>>) = g[1..Len(<<>>)]
  BY <1>1, LengthIsFold
<1>3. 1..Len(<<>>) = {} /\ {} \in SUBSET DOMAIN <<>>
  OBVIOUS
<1>4. g[{}] = 0
  BY <1>2, <1>3 DEF HoldsLengths
<1>5. QED BY <1>2, <1>3, <1>4

LEMMA LengthAppend ==
  ASSUME NEW S, Sized(S), NEW ops \in Seq(S), NEW op \in S
  PROVE  EncodedOpsLen(Append(ops, op)) = EncodedOpsLen(ops) + DeltaOpWireLen(op)
<1>1. PICK n \in Nat : n = Len(ops)
  OBVIOUS
<1>2. PICK more : more = Append(ops, op)
  OBVIOUS
<1>2a. more \in Seq(S)
  BY <1>2
<1>3. /\ DOMAIN ops = 1..n /\ Len(more) = n + 1 /\ DOMAIN more = 1..(n + 1) /\ more[n + 1] = op
      /\ \A i \in 1..n : more[i] = ops[i]
  BY <1>1, <1>2
<1>4. PICK g \in [SUBSET (1..n) -> Nat] : HoldsLengths(g, ops) /\ EncodedOpsLen(ops) = g[1..n]
  BY <1>1, LengthIsFold
<1>5. PICK h \in [SUBSET (1..(n + 1)) -> Nat] : HoldsLengths(h, more) /\ EncodedOpsLen(more) = h[1..(n + 1)]
  BY <1>2a, <1>3, LengthIsFold
<1>6. PICK T : T = 1..n
  OBVIOUS
<1>7. IsFiniteSet(T) /\ T \subseteq DOMAIN ops /\ T \subseteq DOMAIN more /\ \A i \in T : more[i] = ops[i]
  <2>1. IsFiniteSet(T)
    BY <1>6, FS_Interval
  <2>2. T = DOMAIN ops /\ \A i \in T : more[i] = ops[i]
    BY <1>3, <1>6
  <2>3. \A i \in T : i \in DOMAIN more
    BY <1>3, <1>6
  <2>4. QED BY <2>1, <2>2, <2>3
<1>8. \A s \in SUBSET T : s # {} => Max(s) \in s
  <2> SUFFICES ASSUME NEW s \in SUBSET T, s # {} PROVE Max(s) \in s
    OBVIOUS
  <2>1. s \subseteq 0..n
    BY <1>6
  <2>2. QED BY <2>1, PartOfInterval, MaxOf
<1>9. h[T] = g[T]
  <2>1. HoldsLengths(g, ops) /\ HoldsLengths(h, more)
    BY <1>4, <1>5
  <2>2. QED BY ONLY <1>7, <1>8, <2>1, LengthsAgree
<1>10. Max(1..(n + 1)) = n + 1 /\ (1..(n + 1)) \ {n + 1} = T
  BY <1>6, MaxOfInterval
<1>11. PICK U : U = 1..(n + 1)
  OBVIOUS
<1>12. U \in SUBSET DOMAIN more /\ U # {} /\ Max(U) = n + 1 /\ U \ {n + 1} = T
  <2>1. U = DOMAIN more
    BY <1>3, <1>11
  <2>2. n + 1 \in U
    BY <1>11
  <2>3. Max(U) = n + 1 /\ U \ {n + 1} = T
    BY <1>10, <1>11, Zenon
  <2>4. QED BY ONLY <2>1, <2>2, <2>3, Zenon
<1>13. h[U] = h[T] + DeltaOpWireLen(op)
  BY <1>3, <1>5, <1>12 DEF HoldsLengths
<1>14. QED BY <1>2, <1>4, <1>5, <1>6, <1>9, <1>11, <1>13

-------------------------------------------------------------------------------
(* Packing *)

Overhead(d) == SnapshotFragmentOverhead(d.baseline)

\* The operations in all the chunks
Carried(chunks) == UNION {Range(chunks[i]) : i \in DOMAIN chunks}

PackState(S) == [chunks : Seq(Seq(S)), current : Seq(S), len : Nat]

\* What has been packed of the operations taken so far
WellPacked(d, packed, taken) ==
  /\ packed.len = Overhead(d) + EncodedOpsLen(packed.current)
  /\ packed.current # <<>> => packed.len <= MaxDatagram
  /\ \A i \in DOMAIN packed.chunks : Overhead(d) + EncodedOpsLen(packed.chunks[i]) <= MaxDatagram
  /\ Carried(packed.chunks) \cup Range(packed.current) = {op \in taken : Fits(d, op)}

LEMMA OverheadType == \A d : Overhead(d) \in Nat
BY DEF Overhead, SnapshotFragmentOverhead

LEMMA RangeAppend ==
  ASSUME NEW S, NEW s \in Seq(S), NEW e \in S
  PROVE  /\ Range(Append(s, e)) = Range(s) \cup {e}
         /\ DOMAIN Append(s, e) = DOMAIN s \cup {Len(s) + 1}
         /\ Append(s, e)[Len(s) + 1] = e
         /\ \A i \in DOMAIN s : Append(s, e)[i] = s[i]
<1>1. PICK n \in Nat : n = Len(s)
  OBVIOUS
<1>2. PICK t : t = Append(s, e)
  OBVIOUS
<1>3. /\ DOMAIN s = 1..n /\ DOMAIN t = 1..(n + 1) /\ t[n + 1] = e
      /\ \A i \in 1..n : t[i] = s[i]
  BY <1>1, <1>2
<1>4. 1..(n + 1) = (1..n) \cup {n + 1}
  OBVIOUS
<1>5. Range(t) = Range(s) \cup {e}
  <2>1. DOMAIN t = DOMAIN s \cup {n + 1} /\ \A i \in DOMAIN s : t[i] = s[i]
    BY <1>3, <1>4
  <2>2. QED BY <1>3, <2>1 DEF Range
<1>6. QED BY <1>1, <1>2, <1>3, <1>4, <1>5

LEMMA CarriedAppend ==
  ASSUME NEW S, NEW chunks \in Seq(Seq(S)), NEW chunk \in Seq(S)
  PROVE  Carried(Append(chunks, chunk)) = Carried(chunks) \cup Range(chunk)
<1>1. PICK longer : longer = Append(chunks, chunk)
  OBVIOUS
<1>2. /\ DOMAIN longer = DOMAIN chunks \cup {Len(chunks) + 1}
      /\ longer[Len(chunks) + 1] = chunk
      /\ \A i \in DOMAIN chunks : longer[i] = chunks[i]
  BY <1>1, RangeAppend
<1>3. Carried(longer) = Carried(chunks) \cup Range(chunk)
  BY <1>2 DEF Carried
<1>4. QED BY <1>1, <1>3

\* One turn of the loop keeps every chunk within a datagram and loses nothing.
LEMMA PackKeeps ==
  ASSUME NEW S, Sized(S), NEW d, NEW packed \in PackState(S), NEW op \in S
  PROVE  /\ Pack(d, packed, op) \in PackState(S)
         /\ \A taken : WellPacked(d, packed, taken) => WellPacked(d, Pack(d, packed, op), taken \cup {op})
<1>1. /\ packed.chunks \in Seq(Seq(S)) /\ packed.current \in Seq(S) /\ packed.len \in Nat
      /\ packed = [chunks |-> packed.chunks, current |-> packed.current, len |-> packed.len]
  BY DEF PackState
<1>2. PICK len \in Nat : len = DeltaOpWireLen(op)
  BY WireLenType
<1>3. Overhead(d) \in Nat /\ MaxDatagram \in Nat
  BY OverheadType, FragmentAssumption
<1>4. Fits(d, op) <=> Overhead(d) + len <= MaxDatagram
  BY <1>2 DEF Fits, Overhead
<1>5. PICK next : next = Pack(d, packed, op)
  OBVIOUS
<1>6. Append(packed.current, op) \in Seq(S) /\ <<op>> \in Seq(S) /\ Append(packed.chunks, packed.current) \in Seq(Seq(S))
  BY <1>1
<1>7. CASE ~ Fits(d, op)
  <2>1. Pack(d, packed, op) = packed
    BY <1>7 DEF Pack
  <2>2. \A taken : {o \in taken \cup {op} : Fits(d, o)} = {o \in taken : Fits(d, o)}
    BY <1>7
  <2>3. QED BY <2>1, <2>2 DEF WellPacked
<1>8. CASE Fits(d, op) /\ packed.len + len > MaxDatagram /\ packed.current # <<>>
  <2>1. next = [chunks |-> Append(packed.chunks, packed.current), current |-> <<op>>, len |-> Overhead(d) + len]
    BY <1>2, <1>5, <1>8 DEF Pack, Overhead
  <2>2. next \in PackState(S)
    BY <1>3, <1>6, <2>1 DEF PackState
  <2>3. /\ next.chunks = Append(packed.chunks, packed.current) /\ next.current = <<op>>
        /\ next.len = Overhead(d) + len
    BY <2>1
  <2>4. EncodedOpsLen(<<op>>) = len
    <3>1. <<>> \in Seq(S) /\ <<op>> = Append(<<>>, op)
      OBVIOUS
    <3>2. EncodedOpsLen(<<op>>) = 0 + len
      BY <1>2, <3>1, LengthAppend, LengthEmpty
    <3>3. QED BY <3>2
  <2>5. Range(<<op>>) = {op}
    BY DEF Range
  <2>6. Carried(next.chunks) = Carried(packed.chunks) \cup Range(packed.current)
    BY <1>1, <2>3, CarriedAppend
  <2>7. /\ DOMAIN next.chunks = DOMAIN packed.chunks \cup {Len(packed.chunks) + 1}
        /\ next.chunks[Len(packed.chunks) + 1] = packed.current
        /\ \A i \in DOMAIN packed.chunks : next.chunks[i] = packed.chunks[i]
    BY <1>1, <2>3, RangeAppend
  <2>8. ASSUME NEW taken, WellPacked(d, packed, taken) PROVE WellPacked(d, next, taken \cup {op})
    <3>1. next.len = Overhead(d) + EncodedOpsLen(next.current)
      BY <2>3, <2>4
    <3>2. next.len <= MaxDatagram
      BY <1>4, <1>8, <2>3
    <3>3. \A i \in DOMAIN next.chunks : Overhead(d) + EncodedOpsLen(next.chunks[i]) <= MaxDatagram
      <4>1. Overhead(d) + EncodedOpsLen(packed.current) <= MaxDatagram
        BY <1>8, <2>8 DEF WellPacked
      <4>2. QED BY <2>7, <2>8, <4>1 DEF WellPacked
    <3>4. Carried(next.chunks) \cup Range(next.current) = {o \in taken \cup {op} : Fits(d, o)}
      BY <1>8, <2>3, <2>5, <2>6, <2>8 DEF WellPacked
    <3>5. QED BY <3>1, <3>2, <3>3, <3>4 DEF WellPacked
  <2>9. QED BY <1>5, <2>2, <2>8
<1>9. CASE Fits(d, op) /\ ~ (packed.len + len > MaxDatagram /\ packed.current # <<>>)
  <2>1. next = [packed EXCEPT !.current = Append(@, op), !.len = @ + len]
    BY <1>2, <1>5, <1>9 DEF Pack
  <2>2. next = [chunks |-> packed.chunks, current |-> Append(packed.current, op), len |-> packed.len + len]
    BY <1>1, <2>1
  <2>3. next \in PackState(S)
    BY <1>1, <1>6, <2>2 DEF PackState
  <2>4. /\ next.chunks = packed.chunks /\ next.current = Append(packed.current, op)
        /\ next.len = packed.len + len
    BY <2>2
  <2>5. EncodedOpsLen(next.current) = EncodedOpsLen(packed.current) + len /\ EncodedOpsLen(packed.current) \in Nat
    BY <1>1, <1>2, <2>4, LengthAppend, LengthType
  <2>6. Range(next.current) = Range(packed.current) \cup {op}
    BY <1>1, <2>4, RangeAppend
  <2>7. ASSUME NEW taken, WellPacked(d, packed, taken) PROVE WellPacked(d, next, taken \cup {op})
    <3>1. packed.len = Overhead(d) + EncodedOpsLen(packed.current)
      BY <2>7 DEF WellPacked
    <3>2. next.len = Overhead(d) + EncodedOpsLen(next.current)
      BY <1>3, <2>4, <2>5, <3>1
    <3>3. next.len <= MaxDatagram
      <4>1. CASE packed.current = <<>>
        BY <1>3, <1>4, <1>9, <2>4, <3>1, <4>1, LengthEmpty
      <4>2. CASE packed.current # <<>>
        BY <1>1, <1>3, <1>9, <2>4, <4>2
      <4>3. QED BY <4>1, <4>2
    <3>4. \A i \in DOMAIN next.chunks : Overhead(d) + EncodedOpsLen(next.chunks[i]) <= MaxDatagram
      BY <2>4, <2>7 DEF WellPacked
    <3>5. Carried(next.chunks) \cup Range(next.current) = {o \in taken \cup {op} : Fits(d, o)}
      BY <1>9, <2>4, <2>6, <2>7 DEF WellPacked
    <3>6. QED BY <3>2, <3>3, <3>4, <3>5 DEF WellPacked
  <2>8. QED BY <1>5, <2>3, <2>7
<1>10. QED BY <1>7, <1>8, <1>9

\* h holds what is packed of the operations with any indices.
PackEquation(h, d) ==
  h = [s \in SUBSET DOMAIN d.ops |->
         IF s = {} THEN NothingPacked(d) ELSE Pack(d, h[s \ {Max(s)}], d.ops[Max(s)])]

LEMMA PackIsFold ==
  ASSUME NEW S, Sized(S), NEW d, d.ops \in Seq(S)
  PROVE  \E h : PackEquation(h, d) /\ Packed(d) = h[DOMAIN d.ops]
<1> DEFINE n == Len(d.ops)
           step == [r \in PackState(S) \X S |-> Pack(d, r[1], r[2])]
<1>1. n \in Nat /\ d.ops \in [1..n -> S] /\ DOMAIN d.ops = 1..n
  OBVIOUS
<1>2. step \in [PackState(S) \X S -> PackState(S)]
  <2>1. \A p \in PackState(S), op \in S : Pack(d, p, op) \in PackState(S)
    BY PackKeeps
  <2>2. QED BY <2>1
<1>3. \A p \in PackState(S), op \in S : step[<<p, op>>] = Pack(d, p, op)
  OBVIOUS
<1>4. NothingPacked(d) \in PackState(S)
  BY OverheadType DEF NothingPacked, PackState, Overhead
<1> HIDE DEF n, step
<1>5. PICK g \in [SUBSET (1..n) -> PackState(S)] : IsLeftFold(g, n, NothingPacked(d), d.ops, step)
  BY <1>1, <1>2, <1>4, LeftFoldExists
<1>6. PICK T : T = 1..n
  OBVIOUS
<1>7. DOMAIN d.ops = T
  BY <1>1, <1>6
<1>8. \A s \in SUBSET T : s # {} => Max(s) \in s
  <2> SUFFICES ASSUME NEW s \in SUBSET T, s # {} PROVE Max(s) \in s
    OBVIOUS
  <2>1. s \subseteq 0..n
    BY <1>1, <1>6
  <2>2. QED BY <1>1, <2>1, PartOfInterval, MaxOf
<1>9. \A s \in SUBSET T : g[s] = IF s = {} THEN NothingPacked(d) ELSE step[<<g[s \ {Max(s)}], d.ops[Max(s)]>>]
  BY <1>5, <1>6 DEF IsLeftFold
<1>10. g \in [SUBSET T -> PackState(S)] /\ d.ops \in [T -> S]
  BY <1>1, <1>5, <1>6
<1>11. \A s \in SUBSET T : s # {} => g[s \ {Max(s)}] \in PackState(S) /\ d.ops[Max(s)] \in S
  BY <1>8, <1>10
<1>12. \A s \in SUBSET T : g[s] = IF s = {} THEN NothingPacked(d) ELSE Pack(d, g[s \ {Max(s)}], d.ops[Max(s)])
  BY <1>3, <1>9, <1>11
<1>13. PackEquation(g, d)
  BY <1>7, <1>10, <1>12 DEF PackEquation
<1> DEFINE h == CHOOSE k : PackEquation(k, d)
<1>14. PackEquation(h, d)
  BY <1>13
<1>15. Packed(d) = h[DOMAIN d.ops]
  BY DEF Packed, FoldLeft, MapThenFoldSet, PackEquation
<1>16. QED BY <1>14, <1>15

LEMMA PackedIsWell ==
  ASSUME NEW S, Sized(S), NEW d, d.ops \in Seq(S)
  PROVE  Packed(d) \in PackState(S) /\ WellPacked(d, Packed(d), Range(d.ops))
<1>1. PICK n \in Nat : n = Len(d.ops)
  OBVIOUS
<1>2. DOMAIN d.ops = 1..n /\ \A i \in 1..n : d.ops[i] \in S
  BY <1>1
<1>3. PICK h : PackEquation(h, d) /\ Packed(d) = h[DOMAIN d.ops]
  BY PackIsFold
<1> DEFINE First(k) == {d.ops[i] : i \in 1..k}
           Good(k) == h[1..k] \in PackState(S) /\ WellPacked(d, h[1..k], First(k))
           C == {k \in 0..n : ~ Good(k)}
<1>4. Good(0)
  <2>1. 1..0 = {} /\ {} \in SUBSET DOMAIN d.ops
    OBVIOUS
  <2>2. h[{}] = NothingPacked(d)
    BY <1>3, <2>1 DEF PackEquation
  <2>3. NothingPacked(d) \in PackState(S)
    BY OverheadType DEF NothingPacked, PackState, Overhead
  <2>4. First(0) = {}
    BY <2>1
  <2>5. WellPacked(d, NothingPacked(d), {})
    <3>1. Carried(<<>>) = {} /\ Range(<<>>) = {}
      BY DEF Carried, Range
    <3>2. Overhead(d) = Overhead(d) + 0
      BY OverheadType
    <3>3. QED BY <3>1, <3>2, LengthEmpty DEF WellPacked, NothingPacked, Overhead
  <2>6. QED BY <2>1, <2>2, <2>3, <2>4, <2>5
<1>5. ASSUME NEW k \in 1..n, Good(k - 1) PROVE Good(k)
  <2>1. k \in Nat /\ k # 0 /\ k \in 1..n
    OBVIOUS
  <2>2. Max(1..k) = k /\ (1..k) \ {k} = 1..(k - 1)
    BY <2>1, MaxOfInterval
  <2>3. 1..k \in SUBSET DOMAIN d.ops /\ 1..k # {}
    <3>1. \A i \in 1..k : i \in 1..n
      OBVIOUS
    <3>2. k \in 1..k
      OBVIOUS
    <3>3. QED BY ONLY <1>2, <3>1, <3>2, Zenon
  <2>4. h[1..k] = Pack(d, h[1..(k - 1)], d.ops[k])
    <3>1. PICK U : U = 1..k
      OBVIOUS
    <3>2. Max(U) = k /\ U \ {k} = 1..(k - 1) /\ U \in SUBSET DOMAIN d.ops /\ U # {}
      BY <2>2, <2>3, <3>1, Zenon
    <3>3. h[U] = Pack(d, h[U \ {Max(U)}], d.ops[Max(U)])
      BY ONLY <1>3, <3>2 DEF PackEquation
    <3>4. QED BY ONLY <3>1, <3>2, <3>3, Zenon
  <2>5. First(k) = First(k - 1) \cup {d.ops[k]}
    <3>1. 1..k = (1..(k - 1)) \cup {k}
      OBVIOUS
    <3>2. QED BY <3>1
  <2>6. d.ops[k] \in S
    BY <1>2
  <2> HIDE DEF First
  <2>7. h[1..(k - 1)] \in PackState(S) /\ WellPacked(d, h[1..(k - 1)], First(k - 1))
    BY <1>5
  <2>8. h[1..k] \in PackState(S) /\ WellPacked(d, h[1..k], First(k))
    <3>1. PICK before : before = h[1..(k - 1)]
      OBVIOUS
    <3>2. before \in PackState(S) /\ WellPacked(d, before, First(k - 1))
      BY <2>7, <3>1
    <3>3. PICK op \in S : op = d.ops[k]
      BY <2>6
    <3>4. /\ Pack(d, before, op) \in PackState(S)
          /\ WellPacked(d, Pack(d, before, op), First(k - 1) \cup {op})
      BY <3>2, PackKeeps
    <3>5. QED BY <2>4, <2>5, <3>1, <3>3, <3>4
  <2>9. QED BY <2>8
<1> HIDE DEF Good
<1>6. C = {}
  <2>1. C \subseteq 0..n
    OBVIOUS
  <2>2. 0 \notin C
    BY <1>4
  <2>3. \A k \in 1..n : k \in C => k - 1 \in C
    <3> SUFFICES ASSUME NEW k \in 1..n, k \in C PROVE k - 1 \in C
      OBVIOUS
    <3>1. ~ Good(k) /\ ~ Good(k - 1)
      BY <1>5
    <3>2. k - 1 \in 0..n
      OBVIOUS
    <3>3. QED BY <3>1, <3>2
  <2> HIDE DEF C
  <2>4. QED BY <2>1, <2>2, <2>3, NoFirstFailure
<1>7. Good(n)
  <2>1. n \in 0..n
    OBVIOUS
  <2>2. QED BY <1>6, <2>1
<1> USE DEF Good
<1>8. First(n) = Range(d.ops)
  BY <1>2 DEF Range
<1> HIDE DEF First
<1>9. QED BY <1>2, <1>3, <1>7, <1>8

\* What a delta's chunks are: sequences of its operations, each of which fits a
\* datagram, and together all its operations that fit one.
LEMMA ChunksFit ==
  ASSUME NEW S, Sized(S), NEW d, d.ops \in Seq(S)
  PROVE  /\ SnapshotChunks(d) \in Seq(Seq(S))
         /\ \A i \in DOMAIN SnapshotChunks(d) : Overhead(d) + EncodedOpsLen(SnapshotChunks(d)[i]) <= MaxDatagram
         /\ Carried(SnapshotChunks(d)) = {op \in Range(d.ops) : Fits(d, op)}
<1>1. PICK p : p = Packed(d)
  OBVIOUS
<1>2. p \in PackState(S) /\ WellPacked(d, p, Range(d.ops))
  BY <1>1, PackedIsWell
<1>3. p.chunks \in Seq(Seq(S)) /\ p.current \in Seq(S)
  BY <1>2 DEF PackState
<1>4. CASE p.current = <<>>
  <2>1. SnapshotChunks(d) = p.chunks
    BY <1>1, <1>4 DEF SnapshotChunks
  <2>2. Range(<<>>) = {}
    BY DEF Range
  <2>3. QED BY <1>2, <1>3, <1>4, <2>1, <2>2 DEF WellPacked
<1>5. CASE p.current # <<>>
  <2>1. SnapshotChunks(d) = Append(p.chunks, p.current)
    BY <1>1, <1>5 DEF SnapshotChunks
  <2>2. SnapshotChunks(d) \in Seq(Seq(S))
    BY <1>3, <2>1
  <2>3. Carried(SnapshotChunks(d)) = {op \in Range(d.ops) : Fits(d, op)}
    BY <1>2, <1>3, <2>1, CarriedAppend DEF WellPacked
  <2>4. \A i \in DOMAIN SnapshotChunks(d) : Overhead(d) + EncodedOpsLen(SnapshotChunks(d)[i]) <= MaxDatagram
    <3>1. Overhead(d) + EncodedOpsLen(p.current) <= MaxDatagram
      BY <1>2, <1>5 DEF WellPacked
    <3>2. /\ DOMAIN SnapshotChunks(d) = DOMAIN p.chunks \cup {Len(p.chunks) + 1}
          /\ SnapshotChunks(d)[Len(p.chunks) + 1] = p.current
          /\ \A i \in DOMAIN p.chunks : SnapshotChunks(d)[i] = p.chunks[i]
      BY <1>3, <2>1, RangeAppend
    <3>3. QED BY <1>2, <3>1, <3>2 DEF WellPacked
  <2>5. QED BY <2>2, <2>3, <2>4
<1>6. QED BY <1>4, <1>5

-------------------------------------------------------------------------------
(* Sequences without repetition *)

Unique(s) == \A i, j \in DOMAIN s : i # j => s[i] # s[j]

\* A sequence without repetitions loses exactly the element removed.
LEMMA RemoveFirstOnce ==
  ASSUME NEW S, NEW s \in Seq(S), Unique(s), NEW e \in Range(s)
  PROVE  /\ RemoveFirst(s, e) \in Seq(S) /\ Unique(RemoveFirst(s, e))
         /\ Range(RemoveFirst(s, e)) = Range(s) \ {e}
         /\ Len(RemoveFirst(s, e)) = Len(s) - 1
<1>1. PICK n \in Nat : n = Len(s)
  OBVIOUS
<1>2. DOMAIN s = 1..n /\ \A i \in 1..n : s[i] \in S
  BY <1>1
<1>3. PICK k \in 1..n : s[k] = e
  BY <1>2 DEF Range
<1>4. {i \in 1..Len(s) : s[i] = e} = {k}
  BY <1>1, <1>2, <1>3 DEF Unique
<1>5. Min({k}) = k
  BY DEF Min
<1>6. SelectInSeq(s, LAMBDA v : v = e) = k
  BY <1>4, <1>5 DEF SelectInSeq
<1>7. RemoveFirst(s, e) = RemoveAt(s, k)
  BY <1>1, <1>3, <1>6 DEF RemoveFirst
<1>8. PICK a : a = SubSeq(s, 1, k - 1)
  OBVIOUS
<1>9. PICK b : b = SubSeq(s, k + 1, n)
  OBVIOUS
<1>10. a \in Seq(S) /\ Len(a) = k - 1 /\ \A i \in 1..(k - 1) : a[i] = s[i]
  BY <1>1, <1>2, <1>8
<1>11. b \in Seq(S) /\ Len(b) = n - k /\ \A i \in 1..(n - k) : b[i] = s[k + i]
  BY <1>1, <1>2, <1>9
<1>12. PICK t : t = a \o b
  OBVIOUS
<1>13. /\ t \in Seq(S) /\ Len(t) = n - 1
       /\ \A i \in 1..(n - 1) : t[i] = IF i < k THEN s[i] ELSE s[i + 1]
  <2>1. t \in Seq(S) /\ Len(t) = n - 1
    <3>1. t \in Seq(S)
      BY <1>10, <1>11, <1>12
    <3>2. Len(t) = Len(a) + Len(b)
      <4>1. a \in Seq(S) /\ b \in Seq(S)
        BY <1>10, <1>11
      <4>2. Len(a \o b) = Len(a) + Len(b)
        BY ONLY <4>1
      <4>3. QED BY ONLY <1>12, <4>2
    <3>3. QED BY <1>10, <1>11, <3>1, <3>2
  <2>2. ASSUME NEW i \in 1..(n - 1) PROVE t[i] = IF i < k THEN s[i] ELSE s[i + 1]
    <3>1. t[i] = IF i < k THEN a[i] ELSE b[i - (k - 1)]
      BY <1>10, <1>11, <1>12
    <3>2. i < k => i \in 1..(k - 1)
      OBVIOUS
    <3>3. ~ (i < k) => i - (k - 1) \in 1..(n - k) /\ k + (i - (k - 1)) = i + 1
      OBVIOUS
    <3>4. QED BY <1>10, <1>11, <3>1, <3>2, <3>3
  <2>3. QED BY <2>1, <2>2
<1>14. t = RemoveFirst(s, e)
  BY <1>1, <1>7, <1>8, <1>9, <1>12 DEF RemoveAt
<1>15. DOMAIN t = 1..(n - 1)
  BY <1>13
<1>16. Unique(t)
  <2> SUFFICES ASSUME NEW i \in 1..(n - 1), NEW j \in 1..(n - 1), i # j PROVE t[i] # t[j]
    BY <1>15 DEF Unique
  <2>1. ASSUME NEW m \in 1..(n - 1)
        PROVE  \E p \in 1..n : t[m] = s[p] /\ p = IF m < k THEN m ELSE m + 1
    BY <1>13
  <2>2. PICK p \in 1..n : t[i] = s[p] /\ p = IF i < k THEN i ELSE i + 1
    BY <2>1
  <2>3. PICK q \in 1..n : t[j] = s[q] /\ q = IF j < k THEN j ELSE j + 1
    BY <2>1
  <2>4. p # q
    BY <2>2, <2>3
  <2>5. QED BY <1>2, <2>2, <2>3, <2>4 DEF Unique
<1>17. Range(t) = Range(s) \ {e}
  <2>1. ASSUME NEW x \in Range(t) PROVE x \in Range(s) \ {e}
    <3>1. PICK i \in 1..(n - 1) : x = t[i]
      BY <1>15 DEF Range
    <3>2. PICK j \in 1..n : j # k /\ x = s[j]
      BY <1>13, <3>1
    <3>3. QED BY <1>2, <1>3, <3>2 DEF Range, Unique
  <2>2. ASSUME NEW x \in Range(s) \ {e} PROVE x \in Range(t)
    <3>1. PICK j \in 1..n : x = s[j] /\ j # k
      BY <1>2, <1>3 DEF Range
    <3>2. PICK i \in 1..(n - 1) : i = IF j < k THEN j ELSE j - 1
      <4>1. CASE j < k
        BY <4>1
      <4>2. CASE ~ (j < k)
        BY <3>1, <4>2
      <4>3. QED BY <4>1, <4>2
    <3>3. t[i] = x
      BY <1>13, <3>1, <3>2
    <3>4. QED BY <1>15, <3>3 DEF Range
  <2>3. QED BY <2>1, <2>2
<1>18. QED BY <1>1, <1>13, <1>14, <1>16, <1>17

LEMMA CapacityType == Capacity \in Nat /\ Capacity >= 1
BY FragmentAssumption DEF Capacity

\* The newcomer is tracked, whoever has to go for it.
LEMMA TrackedKeeps ==
  ASSUME NEW S, order \in Seq(S), Unique(order), Len(order) <= Capacity,
         NEW n \in S, n \notin Range(order)
  PROVE  /\ Tracked(n) \in Seq(S) /\ Unique(Tracked(n)) /\ Len(Tracked(n)) <= Capacity
         /\ n \in Range(Tracked(n)) /\ Range(Tracked(n)) \subseteq Range(order) \cup {n}
<1>1. PICK l \in Nat : l = Len(order)
  OBVIOUS
<1>2. PICK longer : longer = Append(order, n)
  OBVIOUS
<1>3. /\ longer \in Seq(S) /\ Len(longer) = l + 1 /\ DOMAIN longer = 1..(l + 1) /\ DOMAIN order = 1..l
      /\ longer[l + 1] = n /\ \A i \in 1..l : longer[i] = order[i]
  BY <1>1, <1>2
<1>4. Range(longer) = Range(order) \cup {n}
  BY <1>2, RangeAppend
<1>5. Unique(longer)
  <2>1. \A i \in 1..l : order[i] # n
    BY <1>3 DEF Range
  <2>2. QED BY <1>3, <2>1 DEF Unique
<1>6. PICK c \in Nat : c = Capacity
  BY CapacityType
<1>7. c >= 1 /\ l <= c
  BY <1>1, <1>6, CapacityType
<1>8. CASE l + 1 <= c
  <2>1. Tracked(n) = longer
    BY <1>2, <1>3, <1>6, <1>8 DEF Tracked
  <2>2. n \in Range(longer)
    BY <1>4
  <2>3. QED BY <1>3, <1>4, <1>5, <1>6, <1>8, <2>1, <2>2
<1>9. CASE l + 1 > c
  <2>1. l = c /\ l + 1 - c = 1
    BY <1>7, <1>9
  <2>2. Tracked(n) = SubSeq(longer, 2, l + 1)
    <3>1. Tracked(n) = IF Len(longer) - c > 0 THEN SubSeq(longer, (Len(longer) - c) + 1, Len(longer))
                                              ELSE longer
      BY <1>2, <1>6, Zenon DEF Tracked
    <3>2. Len(longer) - c = 1 /\ Len(longer) = l + 1 /\ 1 > 0 /\ 1 + 1 = 2
      BY <1>3, <2>1
    <3>3. Tracked(n) = IF 1 > 0 THEN SubSeq(longer, 1 + 1, l + 1) ELSE longer
      BY <3>1, <3>2, Zenon
    <3>4. QED BY <3>2, <3>3, Zenon
  <2>3. PICK t : t = SubSeq(longer, 2, l + 1)
    OBVIOUS
  <2>4. t \in Seq(S) /\ Len(t) = l /\ DOMAIN t = 1..l /\ \A i \in 1..l : t[i] = longer[i + 1]
    <3>1. 2 \in 1..(l + 1) /\ l + 1 \in 1..(l + 1) /\ l + 1 - 2 + 1 = l /\ 2 <= l + 1
      BY <1>7, <2>1
    <3>2. Len(t) = l
      BY <1>3, <2>3, <3>1
    <3>3. t \in Seq(S)
      BY <1>3, <2>3, <3>1
    <3>4. DOMAIN t = 1..l
      BY <3>2, <3>3
    <3>5. ASSUME NEW i \in 1..l PROVE t[i] = longer[i + 1]
      <4>1. t[i] = longer[2 + i - 1]
        BY <1>3, <2>3, <3>1
      <4>2. 2 + i - 1 = i + 1
        OBVIOUS
      <4>3. QED BY <4>1, <4>2, Zenon
    <3>6. QED BY <3>2, <3>3, <3>4, <3>5
  <2>5. Unique(t)
    <3> SUFFICES ASSUME NEW i \in 1..l, NEW j \in 1..l, i # j PROVE t[i] # t[j]
      BY <2>4 DEF Unique
    <3>1. i + 1 \in 1..(l + 1) /\ j + 1 \in 1..(l + 1) /\ i + 1 # j + 1
      OBVIOUS
    <3>2. longer[i + 1] # longer[j + 1]
      BY <1>3, <1>5, <3>1 DEF Unique
    <3>3. QED BY <2>4, <3>2
  <2>6. n \in Range(t)
    <3>1. l \in 1..l /\ t[l] = n
      BY <1>3, <1>7, <2>1, <2>4
    <3>2. QED BY <2>4, <3>1 DEF Range
  <2>7. Range(t) \subseteq Range(longer)
    BY <1>3, <2>4 DEF Range
  <2>8. QED BY <1>4, <1>6, <2>1, <2>2, <2>3, <2>4, <2>5, <2>6, <2>7
<1>10. QED BY <1>6, <1>7, <1>8, <1>9

-------------------------------------------------------------------------------
(* What is sent, and what the client holds of it *)

\* Everything the transport makes of what it was handed
Sent == UNION {Messages(n, handed[n]) : n \in DOMAIN handed}

\* What the client holds of snapshot n, the delta d, once it has applied what is in done.
\* The table may hold it only while fragments are missing.
HeldParts(p, n, d, done) ==
  /\ p = [count |-> p.count, parts |-> p.parts, received |-> p.received]
  /\ p.count = Len(SnapshotChunks(d))
  /\ p.parts \subseteq 0..(p.count - 1) /\ p.received = Cardinality(p.parts)
  /\ \A i \in p.parts : \A op \in Range(SnapshotChunks(d)[i + 1]) : <<n, op>> \in done

SplitDelta(d) == ~Whole(d) /\ Len(SnapshotChunks(d)) \in 2..MaxFragments

FragIInv ==
  /\ handed \in Seq(Handed) /\ Len(handed) <= MaxSequence
  /\ datagrams = Sent
  /\ \A a \in applied : a[1] \in DOMAIN handed
  /\ acks \subseteq DOMAIN handed
  /\ AckedOnlyWhenApplied
  /\ order \in Seq(SnapshotId) /\ Unique(order) /\ Len(order) <= Capacity
  /\ Range(order) = DOMAIN fragments
  /\ \A n \in DOMAIN fragments :
       /\ n \in DOMAIN handed /\ SplitDelta(handed[n])
       /\ HeldParts(fragments[n], n, handed[n], applied)
       /\ fragments[n].received \in 1..(fragments[n].count - 1)

LEMMA DeltaTyped ==
  ASSUME NEW d \in Handed
  PROVE  d.ops \in Seq(Range(d.ops)) /\ Sized(Range(d.ops))
BY FragmentAssumption DEF Sized

LEMMA ChunksOf ==
  ASSUME NEW d \in Handed
  PROVE  /\ SnapshotChunks(d) \in Seq(Seq(Range(d.ops)))
         /\ \A i \in DOMAIN SnapshotChunks(d) : Overhead(d) + EncodedOpsLen(SnapshotChunks(d)[i]) <= MaxDatagram
         /\ Carried(SnapshotChunks(d)) = {op \in Range(d.ops) : Fits(d, op)}
BY DeltaTyped, ChunksFit

LEMMA FragmentSent ==
  ASSUME NEW d \in Handed, NEW n, NEW m \in Messages(n, d), m.kind = "SnapshotFragment"
  PROVE  /\ ~ Whole(d) /\ Len(SnapshotChunks(d)) <= MaxFragments
         /\ Messages(n, d) = SnapshotFragments(n, d)
         /\ m.sequence = n /\ m.baseline = d.baseline /\ m.count = Len(SnapshotChunks(d))
         /\ m.index \in 0..(m.count - 1) /\ m.index + 1 \in DOMAIN SnapshotChunks(d)
         /\ m.ops = SnapshotChunks(d)[m.index + 1]
<1>1. m # SnapshotDelta(n, d)
  BY DEF SnapshotDelta
<1>2. ~ Whole(d) /\ Len(SnapshotChunks(d)) <= MaxFragments /\ Messages(n, d) = SnapshotFragments(n, d)
  <2>1. Len(SnapshotChunks(d)) \in Nat /\ MaxFragments \in Nat
    BY ChunksOf, FragmentAssumption
  <2>2. ~ Whole(d) /\ ~ (Len(SnapshotChunks(d)) > MaxFragments) /\ Messages(n, d) = SnapshotFragments(n, d)
    BY <1>1 DEF Messages
  <2>3. QED BY <2>1, <2>2
<1>3. PICK c : c = SnapshotChunks(d)
  OBVIOUS
<1>4. PICK l \in Nat : l = Len(c) /\ DOMAIN c = 1..l
  BY <1>3, ChunksOf
<1>5. PICK i \in DOMAIN c :
        m = [kind |-> "SnapshotFragment", sequence |-> n, baseline |-> d.baseline,
             index |-> i - 1, count |-> l, ops |-> c[i]]
  BY <1>2, <1>3, <1>4 DEF SnapshotFragments, FragmentIndex
<1>6. /\ m.sequence = n /\ m.baseline = d.baseline /\ m.count = l /\ m.index = i - 1
      /\ m.ops = c[i]
  BY ONLY <1>5
<1>7. i - 1 \in 0..(l - 1) /\ (i - 1) + 1 = i
  BY <1>4
<1>8. QED BY <1>2, <1>3, <1>4, <1>6, <1>7

LEMMA WholeSent ==
  ASSUME NEW d \in Handed, NEW n, NEW m \in Messages(n, d), m.kind # "SnapshotFragment"
  PROVE  Whole(d) /\ m.sequence = n /\ m.ops = d.ops /\ m.baseline = d.baseline
<1>1. m \notin SnapshotFragments(n, d)
  BY DEF SnapshotFragments
<1>2. Whole(d) /\ m = SnapshotDelta(n, d)
  BY <1>1 DEF Messages
<1>3. QED BY <1>2 DEF SnapshotDelta

LEMMA MessagesLeave ==
  ASSUME NEW d \in Handed, NEW n, NEW m \in Messages(n, d)
  PROVE  m.sequence = n /\ EncodedLen(m) <= MaxDatagram
<1>1. CASE m.kind = "SnapshotFragment"
  <2>1. /\ m.sequence = n /\ m.baseline = d.baseline /\ m.index + 1 \in DOMAIN SnapshotChunks(d)
        /\ m.ops = SnapshotChunks(d)[m.index + 1]
    BY <1>1, FragmentSent
  <2>2. Overhead(d) + EncodedOpsLen(m.ops) <= MaxDatagram
    BY <2>1, ChunksOf
  <2>3. EncodedOpsLen(m.ops) \in Nat
    <3>1. m.ops \in Seq(Range(d.ops))
      BY <2>1, ChunksOf
    <3>2. QED BY <3>1, DeltaTyped, LengthType
  <2>4. EncodedLen(m) = Overhead(d) + EncodedOpsLen(m.ops)
    <3>1. PICK b \in Nat : b = IF d.baseline THEN 8 ELSE 0
      OBVIOUS
    <3>2. EncodedLen(m) = 4 + 8 + 1 + b + 4 + EncodedOpsLen(m.ops) + (2 + 2)
      BY <1>1, <2>1, <3>1 DEF EncodedLen, EncodedDeltaLen
    <3>3. Overhead(d) = 4 + 8 + 1 + b + 2 + 2 + 4
      BY <3>1 DEF Overhead, SnapshotFragmentOverhead
    <3>4. QED BY <2>3, <3>2, <3>3
  <2>5. QED BY <2>1, <2>2, <2>4
<1>2. CASE m.kind # "SnapshotFragment"
  <2>1. Whole(d) /\ m.sequence = n /\ m.ops = d.ops /\ m.baseline = d.baseline
    BY <1>2, WholeSent
  <2>2. EncodedDeltaLen(m) = EncodedDeltaLen(d) /\ EncodedDeltaLen(d) \in Nat
    BY <2>1, DeltaTyped, LengthType DEF EncodedDeltaLen
  <2>3. EncodedLen(m) = EncodedDeltaLen(d) + 0
    BY <1>2, <2>2 DEF EncodedLen
  <2>4. QED BY <2>1, <2>2, <2>3 DEF Whole
<1>3. QED BY <1>1, <1>2

\* A message that stands alone carries all that can be sent of its snapshot.
LEMMA AloneIsComplete ==
  ASSUME NEW d \in Handed, NEW n, NEW m \in Messages(n, d), ~ OneOfSeveral(m)
  PROVE  SendableOps(d) \subseteq Range(m.ops)
<1>1. CASE m.kind = "SnapshotFragment"
  <2>1. PICK c : c = SnapshotChunks(d)
    OBVIOUS
  <2>2. /\ ~ Whole(d) /\ m.count = Len(c) /\ m.index \in 0..(m.count - 1)
        /\ m.ops = c[m.index + 1] /\ c \in Seq(Seq(Range(d.ops)))
    BY <1>1, <2>1, FragmentSent, ChunksOf
  <2>3. m.count = 1 /\ m.index = 0
    <3>1. PICK k \in Nat : k = m.count
      BY <2>2
    <3>2. ~ (k > 1) /\ m.index \in 0..(k - 1)
      BY <1>1, <2>2, <3>1 DEF OneOfSeveral
    <3>3. k = 1
      BY <3>2
    <3>4. QED BY <3>1, <3>2, <3>3
  <2>4. Carried(c) = Range(m.ops)
    <3>1. DOMAIN c = {1} /\ m.ops = c[1]
      <4>1. DOMAIN c = 1..Len(c) /\ Len(c) = 1
        <5>1. c \in Seq(Seq(Range(d.ops)))
          BY <2>2
        <5>2. DOMAIN c = 1..Len(c)
          BY ONLY <5>1
        <5>3. Len(c) = 1
          BY <2>2, <2>3, Zenon
        <5>4. QED BY ONLY <5>2, <5>3
      <4>2. 0 + 1 = 1 /\ 1..1 = {1}
        OBVIOUS
      <4>3. QED BY <2>2, <2>3, <4>1, <4>2
    <3>2. QED BY <3>1 DEF Carried
  <2>5. SendableOps(d) = Carried(c)
    BY <2>1, <2>2, ChunksOf DEF SendableOps
  <2>6. QED BY <2>4, <2>5
<1>2. CASE m.kind # "SnapshotFragment"
  BY <1>2, WholeSent DEF SendableOps
<1>3. QED BY <1>1, <1>2

LEMMA FragInitIInv == FragInit => FragIInv
<1> SUFFICES ASSUME FragInit PROVE FragIInv
  OBVIOUS
<1>1. handed = <<>> /\ datagrams = {} /\ DOMAIN fragments = {} /\ order = <<>> /\ applied = {} /\ acks = {}
  BY DEF FragInit, EmptyMap
<1>2. Sent = {}
  BY <1>1 DEF Sent
<1>3. Unique(order) /\ Range(order) = {} /\ order \in Seq(SnapshotId) /\ Len(order) = 0
  BY <1>1 DEF Unique, Range
<1>4. handed \in Seq(Handed) /\ Len(handed) = 0 /\ 0 <= MaxSequence /\ 0 <= Capacity
  BY <1>1, FragmentAssumption, CapacityType
<1>5. AckedOnlyWhenApplied
  BY <1>1 DEF AckedOnlyWhenApplied
<1>6. QED BY <1>1, <1>2, <1>3, <1>4, <1>5 DEF FragIInv

\* Every datagram is a message of some delta handed over.
LEMMA DatagramOf ==
  ASSUME FragIInv, NEW m \in datagrams
  PROVE  /\ m.sequence \in DOMAIN handed /\ handed[m.sequence] \in Handed
         /\ m \in Messages(m.sequence, handed[m.sequence]) /\ m.sequence \in SnapshotId
<1>1. PICK n \in DOMAIN handed : m \in Messages(n, handed[n])
  BY DEF FragIInv, Sent
<1>2. handed[n] \in Handed
  BY DEF FragIInv
<1>3. n \in SnapshotId
  BY FragmentAssumption DEF FragIInv, SnapshotId
<1>4. QED BY <1>1, <1>2, <1>3, MessagesLeave

LEMMA SendKeeps ==
  ASSUME FragIInv, NEW d \in Handed, SendSnapshotDelta(d)
  PROVE  FragIInv'
<1>1. PICK l \in Nat : l = Len(handed)
  BY DEF FragIInv
<1>2. /\ handed' = Append(handed, d) /\ Len(handed) < MaxSequence
      /\ datagrams' = datagrams \cup {m \in Messages(l + 1, d) : EncodedLen(m) <= MaxDatagram}
      /\ UNCHANGED <<fragments, order, applied, acks>>
  BY <1>1 DEF SendSnapshotDelta
<1>3. handed' \in Seq(Handed) /\ Len(handed') <= MaxSequence
  BY <1>2, FragmentAssumption DEF FragIInv
<1>4. /\ DOMAIN handed' = DOMAIN handed \cup {l + 1} /\ handed'[l + 1] = d
      /\ \A n \in DOMAIN handed : handed'[n] = handed[n]
  BY <1>1, <1>2, RangeAppend DEF FragIInv
<1>5. datagrams' = Sent'
  <2>1. {m \in Messages(l + 1, d) : EncodedLen(m) <= MaxDatagram} = Messages(l + 1, d)
    BY MessagesLeave
  <2>2. Sent' = Sent \cup Messages(l + 1, d)
    BY <1>4 DEF Sent
  <2>3. QED BY <1>2, <2>1, <2>2 DEF FragIInv
<1>6. /\ \A a \in applied' : a[1] \in DOMAIN handed'
      /\ acks' \subseteq DOMAIN handed'
  BY <1>2, <1>4 DEF FragIInv
<1>7. AckedOnlyWhenApplied'
  BY <1>2, <1>4 DEF FragIInv, AckedOnlyWhenApplied
<1>8. /\ order' \in Seq(SnapshotId) /\ Unique(order') /\ Len(order') <= Capacity
      /\ Range(order') = DOMAIN fragments'
  BY <1>2 DEF FragIInv
<1>9. ASSUME NEW n \in DOMAIN fragments'
      PROVE  /\ n \in DOMAIN handed' /\ SplitDelta(handed'[n])
             /\ HeldParts(fragments'[n], n, handed'[n], applied')
             /\ fragments'[n].received \in 1..(fragments'[n].count - 1)
  BY <1>2, <1>4 DEF FragIInv
<1>10. QED BY <1>3, <1>5, <1>6, <1>7, <1>8, <1>9 DEF FragIInv

LEMMA AloneKeeps ==
  ASSUME FragIInv, NEW m \in datagrams, ReceiveSnapshot(m)
  PROVE  FragIInv'
<1>1. /\ ~ OneOfSeveral(m) /\ applied' = applied \cup {<<m.sequence, op>> : op \in Range(m.ops)}
      /\ acks' = acks \cup {m.sequence}
      /\ UNCHANGED <<handed, datagrams, fragments, order>>
  BY DEF ReceiveSnapshot, Apply, server
<1>2. /\ m.sequence \in DOMAIN handed /\ handed[m.sequence] \in Handed
      /\ m \in Messages(m.sequence, handed[m.sequence])
  BY DatagramOf
<1>3. SendableOps(handed[m.sequence]) \subseteq Range(m.ops)
  BY <1>1, <1>2, AloneIsComplete
<1>4. AckedOnlyWhenApplied'
  BY <1>1, <1>3 DEF FragIInv, AckedOnlyWhenApplied
<1>5. datagrams' = Sent'
  BY <1>1 DEF FragIInv, Sent
<1>6. /\ \A a \in applied' : a[1] \in DOMAIN handed'
      /\ acks' \subseteq DOMAIN handed'
  BY <1>1, <1>2 DEF FragIInv
<1>7. ASSUME NEW n \in DOMAIN fragments'
      PROVE  /\ n \in DOMAIN handed' /\ SplitDelta(handed'[n])
             /\ HeldParts(fragments'[n], n, handed'[n], applied')
             /\ fragments'[n].received \in 1..(fragments'[n].count - 1)
  <2>1. /\ n \in DOMAIN handed /\ SplitDelta(handed[n])
        /\ HeldParts(fragments[n], n, handed[n], applied)
        /\ fragments[n].received \in 1..(fragments[n].count - 1)
    BY <1>1 DEF FragIInv
  <2>2. HeldParts(fragments[n], n, handed[n], applied')
    BY <1>1, <2>1 DEF HeldParts
  <2>3. QED BY <1>1, <2>1, <2>2
<1>8. /\ handed' \in Seq(Handed) /\ Len(handed') <= MaxSequence
      /\ order' \in Seq(SnapshotId) /\ Unique(order') /\ Len(order') <= Capacity
      /\ Range(order') = DOMAIN fragments'
  BY <1>1 DEF FragIInv
<1>9. QED BY <1>4, <1>5, <1>6, <1>7, <1>8 DEF FragIInv

LEMMA AllParts ==
  ASSUME NEW c \in Nat, NEW P, P \subseteq 0..(c - 1)
  PROVE  /\ IsFiniteSet(P) /\ Cardinality(P) \in 0..c
         /\ Cardinality(P) >= c => P = 0..(c - 1)
<1>1. PICK T : T = 0..(c - 1)
  OBVIOUS
<1>2. IsFiniteSet(T) /\ Cardinality(T) = c
  BY <1>1, FS_Interval
<1>3. P \in SUBSET T
  BY <1>1
<1>4. IsFiniteSet(P) /\ Cardinality(P) <= Cardinality(T) /\ (Cardinality(T) = Cardinality(P) => T = P)
  BY ONLY <1>2, <1>3, FS_Subset
<1>5. Cardinality(P) \in Nat
  BY <1>4, FS_CardinalityType
<1>6. QED BY <1>1, <1>2, <1>4, <1>5

\* What the client has in hand when a fragment arrives, and after counting it
LEMMA PendingHeld ==
  ASSUME FragIInv, NEW m \in datagrams, OneOfSeveral(m)
  PROVE  LET n == m.sequence
             p == Pending(m)
         IN  /\ SplitDelta(handed[n]) /\ p.count = m.count
             /\ HeldParts(p, n, handed[n], applied)
             /\ p.received \in 0..(m.count - 1)
<1>1. PICK n : n = m.sequence
  OBVIOUS
<1>2. PICK d : d = handed[n]
  OBVIOUS
<1>3. n \in DOMAIN handed /\ d \in Handed /\ m \in Messages(n, d)
  BY <1>1, <1>2, DatagramOf
<1>4. m.kind = "SnapshotFragment" /\ m.count > 1
  BY DEF OneOfSeveral
<1>5. /\ ~ Whole(d) /\ Len(SnapshotChunks(d)) <= MaxFragments /\ m.count = Len(SnapshotChunks(d))
  BY <1>3, <1>4, FragmentSent
<1>6. m.count \in Nat /\ MaxFragments \in Nat
  BY <1>3, <1>5, ChunksOf, FragmentAssumption
<1>7. SplitDelta(d)
  BY <1>4, <1>5, <1>6 DEF SplitDelta
<1>8. CASE n \in DOMAIN fragments
  <2>1. HeldParts(fragments[n], n, d, applied) /\ fragments[n].received \in 1..(fragments[n].count - 1)
    BY <1>2, <1>8 DEF FragIInv
  <2>2. fragments[n].count = m.count
    BY <1>5, <2>1 DEF HeldParts
  <2>3. Pending(m) = fragments[n]
    BY <1>1, <1>8, <2>2 DEF Pending
  <2>4. QED BY <1>1, <1>2, <1>6, <1>7, <2>1, <2>2, <2>3
<1>9. CASE n \notin DOMAIN fragments
  <2>1. Pending(m) = [count |-> m.count, parts |-> {}, received |-> 0]
    BY <1>1, <1>9 DEF Pending
  <2>2. PICK p : p = [count |-> m.count, parts |-> {}, received |-> 0]
    OBVIOUS
  <2>3. p.count = m.count /\ p.parts = {} /\ p.received = 0
    BY ONLY <2>2
  <2>4. HeldParts(p, n, d, applied)
    BY <1>5, <2>2, <2>3, FS_EmptySet DEF HeldParts
  <2>5. 0 \in 0..(m.count - 1)
    BY <1>4, <1>6
  <2>6. QED BY <1>1, <1>2, <1>7, <2>1, <2>2, <2>3, <2>4, <2>5
<1>10. QED BY <1>8, <1>9

LEMMA CountedHeld ==
  ASSUME FragIInv, NEW m \in datagrams, OneOfSeveral(m),
         IF m.index \notin Pending(m).parts THEN Apply(m) ELSE UNCHANGED applied
  PROVE  LET n == m.sequence
             q == Counted(m)
         IN  /\ q.count = m.count
             /\ HeldParts(q, n, handed[n], applied')
             /\ q.received \in 1..m.count
<1>1. PICK n : n = m.sequence
  OBVIOUS
<1>2. PICK d : d = handed[n]
  OBVIOUS
<1>3. PICK p : p = Pending(m)
  OBVIOUS
<1>4. d \in Handed /\ m \in Messages(n, d) /\ m.kind = "SnapshotFragment" /\ m.count > 1
  BY <1>1, <1>2, DatagramOf DEF OneOfSeveral
<1>5. /\ m.count = Len(SnapshotChunks(d)) /\ m.index \in 0..(m.count - 1)
      /\ m.ops = SnapshotChunks(d)[m.index + 1] /\ SnapshotChunks(d) \in Seq(Seq(Range(d.ops)))
  BY <1>4, FragmentSent, ChunksOf
<1>6. PICK c \in Nat : c = m.count /\ c > 1
  BY <1>4, <1>5
<1>7. p.count = c /\ HeldParts(p, n, d, applied) /\ p.received \in 0..(c - 1)
  BY <1>1, <1>2, <1>3, <1>6, PendingHeld
<1>8. PICK q : q = Counted(m)
  OBVIOUS
<1>9. CASE m.index \in p.parts
  <2>1. q = p /\ applied' = applied
    BY <1>3, <1>8, <1>9 DEF Counted
  <2>2. p.parts \subseteq 0..(c - 1) /\ p.received = Cardinality(p.parts)
    BY <1>7 DEF HeldParts
  <2>3. p.received # 0
    <3>1. IsFiniteSet(p.parts)
      BY <2>2, AllParts
    <3>2. QED BY <1>9, <2>2, <3>1, FS_EmptySet
  <2>4. p.received \in 1..c
    BY <1>7, <2>3
  <2>5. QED BY <1>1, <1>2, <1>6, <1>7, <1>8, <2>1, <2>4
<1>10. CASE m.index \notin p.parts
  <2>1. applied' = applied \cup {<<n, op>> : op \in Range(m.ops)}
    BY <1>1, <1>3, <1>10 DEF Apply
  <2>2. /\ p = [count |-> p.count, parts |-> p.parts, received |-> p.received]
        /\ p.count = Len(SnapshotChunks(d))
        /\ p.parts \subseteq 0..(c - 1) /\ p.received = Cardinality(p.parts)
        /\ \A i \in p.parts : \A op \in Range(SnapshotChunks(d)[i + 1]) : <<n, op>> \in applied
    BY <1>7 DEF HeldParts
  <2>3. q = [p EXCEPT !.parts = @ \cup {m.index}, !.received = @ + 1]
    BY <1>3, <1>8, <1>10 DEF Counted
  <2>4. q = [count |-> p.count, parts |-> p.parts \cup {m.index}, received |-> p.received + 1]
    BY <2>2, <2>3
  <2>5. q.count = p.count /\ q.parts = p.parts \cup {m.index} /\ q.received = p.received + 1
    BY ONLY <2>4
  <2>6. IsFiniteSet(p.parts)
    BY <2>2, AllParts
  <2>7. Cardinality(q.parts) = p.received + 1
    BY ZenonT(60), <1>10, <2>2, <2>5, <2>6, FS_AddElement
  <2>8. q.received \in 1..c
    BY <1>7, <2>5
  <2>9. HeldParts(q, n, d, applied')
    <3>1. \A i \in q.parts : \A op \in Range(SnapshotChunks(d)[i + 1]) : <<n, op>> \in applied'
      BY <1>5, <2>1, <2>2, <2>5
    <3>2. q = [count |-> q.count, parts |-> q.parts, received |-> q.received]
      BY <2>4, <2>5
    <3>3. q.parts \subseteq 0..(q.count - 1)
      BY <1>5, <1>6, <1>7, <2>2, <2>5
    <3>4. q.count = Len(SnapshotChunks(d)) /\ q.received = Cardinality(q.parts)
      BY <2>2, <2>5, <2>7
    <3>5. QED BY <3>1, <3>2, <3>3, <3>4 DEF HeldParts
  <2>10. QED BY <1>1, <1>2, <1>6, <1>7, <1>8, <2>5, <2>8, <2>9
<1>11. QED BY <1>9, <1>10

\* All the parts are all that can be sent of the snapshot.
LEMMA AllPartsApplied ==
  ASSUME NEW d \in Handed, ~ Whole(d), NEW n, NEW done, NEW p, HeldParts(p, n, d, done),
         p.received >= p.count
  PROVE  \A op \in SendableOps(d) : <<n, op>> \in done
<1>1. PICK ch : ch = SnapshotChunks(d)
  OBVIOUS
<1>2. ch \in Seq(Seq(Range(d.ops))) /\ Carried(ch) = {op \in Range(d.ops) : Fits(d, op)}
  BY <1>1, ChunksOf
<1>3. PICK c \in Nat : c = Len(ch) /\ DOMAIN ch = 1..c
  BY <1>2
<1>4. p.count = c /\ p.parts \subseteq 0..(c - 1) /\ Cardinality(p.parts) >= c
  BY <1>1, <1>3 DEF HeldParts
<1>5. p.parts = 0..(c - 1)
  BY <1>4, AllParts
<1>6. ASSUME NEW op \in SendableOps(d) PROVE <<n, op>> \in done
  <2>1. op \in Carried(ch)
    BY <1>2 DEF SendableOps
  <2>2. PICK i \in DOMAIN ch : op \in Range(ch[i])
    BY <2>1 DEF Carried
  <2>3. i - 1 \in p.parts /\ (i - 1) + 1 = i
    BY <1>3, <1>5
  <2>4. QED BY <1>1, <2>2, <2>3 DEF HeldParts
<1>7. QED BY <1>6

LEMMA FragmentKeeps ==
  ASSUME FragIInv, NEW m \in datagrams, ReceiveFragment(m)
  PROVE  FragIInv'
<1>1. PICK n : n = m.sequence
  OBVIOUS
<1>2. PICK d : d = handed[n]
  OBVIOUS
<1>3. PICK q : q = Counted(m)
  OBVIOUS
<1>4. PICK tracked : tracked = IF n \in DOMAIN fragments THEN order ELSE Tracked(n)
  OBVIOUS
<1>5. PICK kept : kept = Drop(fragments, Range(order) \ Range(tracked))
  OBVIOUS
<1>6. /\ OneOfSeveral(m)
      /\ IF m.index \notin Pending(m).parts THEN Apply(m) ELSE UNCHANGED applied
      /\ IF q.received < m.count
           THEN fragments' = Put(kept, n, q) /\ order' = tracked /\ acks' = acks
           ELSE fragments' = Drop(kept, {n}) /\ order' = Forgotten(tracked, n) /\ acks' = acks \cup {n}
      /\ handed' = handed /\ datagrams' = datagrams
  BY <1>1, <1>3, <1>4, <1>5 DEF ReceiveFragment, server
<1>7. /\ n \in DOMAIN handed /\ d \in Handed /\ m \in Messages(n, d) /\ n \in SnapshotId
  BY <1>1, <1>2, DatagramOf
<1>8. SplitDelta(d)
  BY <1>1, <1>2, <1>6, PendingHeld
<1>9. q.count = m.count /\ HeldParts(q, n, d, applied') /\ q.received \in 1..m.count
  BY <1>1, <1>2, <1>3, <1>6, CountedHeld
<1>10. m.count \in Nat
  BY <1>8, <1>9 DEF SplitDelta, HeldParts
<1>11. applied \subseteq applied' /\ \A a \in applied' : a[1] \in DOMAIN handed
  BY <1>1, <1>6, <1>7 DEF FragIInv, Apply
<1>12. /\ tracked \in Seq(SnapshotId) /\ Unique(tracked) /\ Len(tracked) <= Capacity
       /\ n \in Range(tracked) /\ Range(tracked) \subseteq Range(order) \cup {n}
  <2>1. CASE n \in DOMAIN fragments
    BY <1>4, <2>1 DEF FragIInv
  <2>2. CASE n \notin DOMAIN fragments
    <3>1. order \in Seq(SnapshotId) /\ Unique(order) /\ Len(order) <= Capacity /\ n \notin Range(order)
      BY <2>2 DEF FragIInv
    <3>2. QED BY <1>4, <1>7, <2>2, <3>1, TrackedKeeps
  <2>3. QED BY <2>1, <2>2
<1>13. /\ DOMAIN kept \cup {n} = Range(tracked)
       /\ DOMAIN kept \subseteq DOMAIN fragments
       /\ \A k \in DOMAIN kept : kept[k] = fragments[k]
  <2>1. Range(order) = DOMAIN fragments
    BY DEF FragIInv
  <2>2. DOMAIN kept = DOMAIN fragments \ (DOMAIN fragments \ Range(tracked))
    BY <1>5, <2>1 DEF Drop, Restrict
  <2>3. \A k \in DOMAIN kept : kept[k] = fragments[k]
    BY <1>5 DEF Drop, Restrict
  <2>4. QED BY <1>12, <2>1, <2>2, <2>3
<1>14. datagrams' = Sent'
  BY <1>6 DEF FragIInv, Sent
<1>15. ASSUME NEW k \in DOMAIN kept
       PROVE  /\ k \in DOMAIN handed' /\ SplitDelta(handed'[k])
              /\ HeldParts(kept[k], k, handed'[k], applied')
              /\ kept[k].received \in 1..(kept[k].count - 1)
  <2>1. /\ k \in DOMAIN handed /\ SplitDelta(handed[k])
        /\ HeldParts(fragments[k], k, handed[k], applied)
        /\ fragments[k].received \in 1..(fragments[k].count - 1)
    BY <1>13 DEF FragIInv
  <2>2. HeldParts(fragments[k], k, handed[k], applied')
    BY <1>11, <2>1 DEF HeldParts
  <2>3. QED BY <1>6, <1>13, <2>1, <2>2
<1>16. \A a \in applied' : a[1] \in DOMAIN handed'
  BY <1>6, <1>11
<1>17. handed' \in Seq(Handed) /\ Len(handed') <= MaxSequence
  BY <1>6 DEF FragIInv
<1>18. CASE q.received < m.count
  <2>1. fragments' = Put(kept, n, q) /\ order' = tracked /\ acks' = acks
    BY <1>6, <1>18
  <2>2. /\ DOMAIN fragments' = DOMAIN kept \cup {n} /\ fragments'[n] = q
        /\ \A k \in DOMAIN kept : k # n => fragments'[k] = kept[k]
    BY <2>1 DEF Put
  <2>3. AckedOnlyWhenApplied' /\ acks' \subseteq DOMAIN handed'
    BY <1>6, <1>11, <2>1 DEF FragIInv, AckedOnlyWhenApplied
  <2>4. /\ order' \in Seq(SnapshotId) /\ Unique(order') /\ Len(order') <= Capacity
        /\ Range(order') = DOMAIN fragments'
    BY <1>12, <1>13, <2>1, <2>2
  <2>5. q.received \in 1..(q.count - 1)
    BY <1>9, <1>10, <1>18
  <2>6. ASSUME NEW k \in DOMAIN fragments'
        PROVE  /\ k \in DOMAIN handed' /\ SplitDelta(handed'[k])
               /\ HeldParts(fragments'[k], k, handed'[k], applied')
               /\ fragments'[k].received \in 1..(fragments'[k].count - 1)
    <3>1. CASE k = n
      BY <1>2, <1>6, <1>7, <1>8, <1>9, <2>2, <2>5, <3>1
    <3>2. CASE k # n
      BY <1>15, <2>2, <3>2
    <3>3. QED BY <3>1, <3>2
  <2>7. QED BY <1>14, <1>16, <1>17, <2>3, <2>4, <2>6 DEF FragIInv
<1>19. CASE ~ (q.received < m.count)
  <2>1. fragments' = Drop(kept, {n}) /\ order' = Forgotten(tracked, n) /\ acks' = acks \cup {n}
    BY <1>6, <1>19
  <2>2. /\ DOMAIN fragments' = DOMAIN kept \ {n}
        /\ \A k \in DOMAIN fragments' : fragments'[k] = kept[k]
    BY <2>1 DEF Drop, Restrict
  <2>3. q.received >= q.count /\ ~ Whole(d)
    BY <1>8, <1>9, <1>10, <1>19 DEF SplitDelta
  <2>4. \A op \in SendableOps(d) : <<n, op>> \in applied'
    BY <1>7, <1>9, <2>3, AllPartsApplied
  <2>5. AckedOnlyWhenApplied'
    BY <1>2, <1>6, <1>11, <2>1, <2>4 DEF FragIInv, AckedOnlyWhenApplied
  <2>6. acks' \subseteq DOMAIN handed'
    BY <1>6, <1>7, <2>1 DEF FragIInv
  <2>7. /\ order' \in Seq(SnapshotId) /\ Unique(order') /\ Len(order') = Len(tracked) - 1
        /\ Range(order') = Range(tracked) \ {n}
    BY <1>12, <2>1, RemoveFirstOnce DEF Forgotten
  <2>8. Len(order') <= Capacity
    <3>1. Len(tracked) \in Nat /\ Capacity \in Nat
      BY <1>12, CapacityType
    <3>2. Len(order') = Len(tracked) - 1 /\ Len(tracked) <= Capacity
      BY <1>12, <2>7
    <3>3. Len(order') <= Capacity
      BY ONLY <3>1, <3>2
    <3>4. QED BY <3>3
  <2>9. Range(order') = DOMAIN fragments'
    BY <1>13, <2>2, <2>7
  <2>10. ASSUME NEW k \in DOMAIN fragments'
         PROVE  /\ k \in DOMAIN handed' /\ SplitDelta(handed'[k])
                /\ HeldParts(fragments'[k], k, handed'[k], applied')
                /\ fragments'[k].received \in 1..(fragments'[k].count - 1)
    BY <1>15, <2>2
  <2>12. QED BY <1>14, <1>16, <1>17, <2>5, <2>6, <2>7, <2>8, <2>9, <2>10 DEF FragIInv
<1>20. QED BY <1>18, <1>19

(* The inductive invariant of transport and client: what the socket has sent   *)
(* is exactly what the deltas split into, and what the client holds of a       *)
(* pending snapshot is some, but not all, of its fragments, all applied.       *)
THEOREM FragSpecInv == FragSpec => []FragIInv
<1>1. FragInit => FragIInv
  BY FragInitIInv
<1>2. FragIInv /\ [FragNext]_fragVars => FragIInv'
  <2> SUFFICES ASSUME FragIInv, [FragNext]_fragVars PROVE FragIInv'
    OBVIOUS
  <2>1. ASSUME NEW d \in Handed, SendSnapshotDelta(d) PROVE FragIInv'
    BY <2>1, SendKeeps
  <2>2. ASSUME NEW m \in datagrams, ReceiveSnapshot(m) PROVE FragIInv'
    BY <2>2, AloneKeeps
  <2>3. ASSUME NEW m \in datagrams, ReceiveFragment(m) PROVE FragIInv'
    BY <2>3, FragmentKeeps
  <2>4. CASE UNCHANGED fragVars
    BY <2>4 DEF fragVars, FragIInv, Sent, AckedOnlyWhenApplied, HeldParts
  <2>5. QED BY <2>1, <2>2, <2>3, <2>4 DEF FragNext
<1>3. QED BY <1>1, <1>2, PTL DEF FragSpec

(* Every variable keeps its type: send_datagram never meets a datagram over    *)
(* the limit, and no pending snapshot is empty or complete.                    *)
THEOREM FragTypeCorrect == FragSpec => []FragTypeOK
<1>1. FragIInv => FragTypeOK
  <2> SUFFICES ASSUME FragIInv PROVE FragTypeOK
    OBVIOUS
  <2>1. \A m \in datagrams : m.sequence \in DOMAIN handed /\ EncodedLen(m) <= MaxDatagram
    BY DatagramOf, MessagesLeave
  <2>2. DOMAIN fragments \subseteq SnapshotId
    BY FragmentAssumption DEF FragIInv, SnapshotId
  <2>3. ASSUME NEW n \in DOMAIN fragments PROVE fragments[n] \in PendingSnapshot
    <3>1. PICK p : p = fragments[n]
      OBVIOUS
    <3>2. /\ SplitDelta(handed[n]) /\ HeldParts(p, n, handed[n], applied)
          /\ p.received \in 1..(p.count - 1)
      BY <3>1 DEF FragIInv
    <3>3. PICK c \in 2..MaxFragments : c = p.count
      BY <3>2 DEF SplitDelta, HeldParts
    <3>4. /\ p.parts \subseteq 0..(c - 1) /\ p.received \in 1..(c - 1)
          /\ p = [count |-> c, parts |-> p.parts, received |-> p.received]
      BY <3>2, <3>3 DEF HeldParts
    <3>5. MaxFragments \in Nat
      BY FragmentAssumption
    <3>6. p.parts \in SUBSET (0..MaxFragments - 1) /\ p.received \in 1..MaxFragments - 1
      BY <3>3, <3>4, <3>5
    <3>7. p \in [count : 2..MaxFragments, parts : SUBSET (0..MaxFragments - 1),
                 received : 1..MaxFragments - 1]
      BY <3>3, <3>4, <3>6
    <3>8. \A i \in p.parts : i < p.count
      BY <3>3, <3>4
    <3>9. QED BY <3>1, <3>7, <3>8 DEF PendingSnapshot
  <2>4. QED BY <2>1, <2>2, <2>3 DEF FragIInv, FragTypeOK
<1>2. QED BY <1>1, FragSpecInv, PTL

(* Whatever arrives late, again or never, and whatever _track_fragment_sequence *)
(* evicts: a snapshot the client acknowledges has been applied, every operation *)
(* of it that fits a datagram, for any deltas and any limits.                   *)
THEOREM AcksAreComplete == FragSpec => []AckedOnlyWhenApplied
<1>1. FragIInv => AckedOnlyWhenApplied
  BY DEF FragIInv
<1>2. QED BY <1>1, FragSpecInv, PTL

(* The client's dictionary of pending snapshots and the array with their order *)
(* name the same snapshots, each once, within the capacity.                    *)
THEOREM TablesAgree == FragSpec => []PendingIsTracked
<1>1. FragIInv => PendingIsTracked
  BY DEF FragIInv, PendingIsTracked, Unique, HeldParts
<1>2. QED BY <1>1, FragSpecInv, PTL

(* snapshot_chunks never makes a chunk that send_datagram would drop, and loses *)
(* no operation that fits a datagram: a snapshot sent in fragments can be       *)
(* completed.                                                                   *)
THEOREM SnapshotsCanComplete == FragSpec => []AllFragmentsLeave
<1>1. FragIInv => AllFragmentsLeave
  <2> SUFFICES ASSUME FragIInv, NEW m \in datagrams, m.kind = "SnapshotFragment"
               PROVE  LET sent == {other \in datagrams : other.sequence = m.sequence}
                      IN  /\ {other.index : other \in sent} = 0..(m.count - 1)
                          /\ UNION {Range(other.ops) : other \in sent} = SendableOps(handed[m.sequence])
    BY DEF AllFragmentsLeave
  <2>1. PICK n : n = m.sequence
    OBVIOUS
  <2>2. PICK d : d = handed[n]
    OBVIOUS
  <2>3. n \in DOMAIN handed /\ d \in Handed /\ m \in Messages(n, d)
    BY <2>1, <2>2, DatagramOf
  <2>4. PICK sent : sent = {other \in datagrams : other.sequence = n}
    OBVIOUS
  <2>5. PICK ch : ch = SnapshotChunks(d)
    OBVIOUS
  <2>6. ~ Whole(d) /\ Messages(n, d) = SnapshotFragments(n, d) /\ m.count = Len(ch)
    BY <2>3, <2>5, FragmentSent
  <2>7. sent = Messages(n, d)
    <3>1. \A other \in sent : other \in Messages(n, d)
      BY <2>2, <2>4, DatagramOf
    <3>2. \A other \in Messages(n, d) : other \in datagrams /\ other.sequence = n
      BY <2>2, <2>3, MessagesLeave DEF FragIInv, Sent
    <3>3. QED BY <2>4, <3>1, <3>2
  <2>8. PICK c \in Nat : c = Len(ch) /\ DOMAIN ch = 1..c /\ Carried(ch) = {op \in Range(d.ops) : Fits(d, op)}
    BY <2>3, <2>5, ChunksOf
  <2> DEFINE Fragment(i) == [kind |-> "SnapshotFragment", sequence |-> n, baseline |-> d.baseline,
                             index |-> i - 1, count |-> c, ops |-> ch[i]]
  <2>9. sent = {Fragment(i) : i \in 1..c}
    BY <2>5, <2>6, <2>7, <2>8 DEF SnapshotFragments, FragmentIndex
  <2>10. \A i : Fragment(i).index = i - 1 /\ Fragment(i).ops = ch[i]
    OBVIOUS
  <2> HIDE DEF Fragment
  <2>11. {other.index : other \in sent} = 0..(c - 1)
    <3>1. \A other \in sent : other.index \in 0..(c - 1)
      BY <2>9, <2>10
    <3>2. ASSUME NEW k \in 0..(c - 1) PROVE k \in {other.index : other \in sent}
      <4>1. k + 1 \in 1..c /\ (k + 1) - 1 = k
        OBVIOUS
      <4>2. Fragment(k + 1) \in sent /\ Fragment(k + 1).index = k
        BY <2>9, <2>10, <4>1
      <4>3. QED BY <4>2
    <3>3. QED BY <3>1, <3>2
  <2>12. UNION {Range(other.ops) : other \in sent} = Carried(ch)
    BY <2>8, <2>9, <2>10 DEF Carried
  <2>13. Carried(ch) = SendableOps(d)
    BY <2>6, <2>8 DEF SendableOps
  <2>14. QED BY <2>1, <2>2, <2>4, <2>6, <2>8, <2>11, <2>12, <2>13
<1>2. QED BY <1>1, FragSpecInv, PTL

-------------------------------------------------------------------------------
(* Codec: readers.  A reader that has not failed is at a place of its frame. *)

Reader(rest, read, ops) == [rest |-> rest, read |-> read, ops |-> ops, error |-> NoError]
ReaderAt(F, k, read, ops) == Reader(SubSeq(F, k + 1, Len(F)), read, ops)

LEMMA ReadsRest ==
  ASSUME NEW rest, NEW read, NEW ops, NEW w
  PROVE  ReadExact(Reader(rest, read, ops), w) =
           IF w = 0 THEN Reader(rest, Append(read, <<>>), ops)
           ELSE IF rest # <<>> /\ Head(rest).width = w
                  THEN Reader(Tail(rest), Append(read, Head(rest).value), ops)
                  ELSE Fail(Reader(rest, read, ops), "UnexpectedEof")
<1>1. ASSUME w = 0
      PROVE  ReadExact(Reader(rest, read, ops), w) = Reader(rest, Append(read, <<>>), ops)
  BY <1>1 DEF ReadExact, Reader, Failed, NoError
<1>2. ASSUME w # 0, rest # <<>>, Head(rest).width = w
      PROVE  ReadExact(Reader(rest, read, ops), w) =
               Reader(Tail(rest), Append(read, Head(rest).value), ops)
  BY <1>2 DEF ReadExact, Reader, Failed, NoError
<1>3. ASSUME w # 0, ~ (rest # <<>> /\ Head(rest).width = w)
      PROVE  ReadExact(Reader(rest, read, ops), w) = Fail(Reader(rest, read, ops), "UnexpectedEof")
  BY <1>3 DEF ReadExact, Reader, Failed, NoError
<1>4. QED BY <1>1, <1>2, <1>3

LEMMA RestAt ==
  ASSUME NEW S, NEW F \in Seq(S), NEW k \in 0..Len(F)
  PROVE  /\ k = Len(F) <=> SubSeq(F, k + 1, Len(F)) = <<>>
         /\ k < Len(F) => /\ Head(SubSeq(F, k + 1, Len(F))) = F[k + 1]
                          /\ Tail(SubSeq(F, k + 1, Len(F))) = SubSeq(F, k + 2, Len(F))
<1>1. PICK n \in Nat : n = Len(F)
  OBVIOUS
<1>2. PICK rest : rest = SubSeq(F, k + 1, n)
  OBVIOUS
<1>3. rest \in Seq(S) /\ Len(rest) = n - k /\ \A i \in 1..(n - k) : rest[i] = F[k + i]
  <2>1. rest \in Seq(S)
    BY <1>1, <1>2
  <2>2. CASE k = n
    BY <1>1, <1>2, <2>1, <2>2
  <2>3. CASE k < n
    <3>1. Len(rest) = n - k
      BY <1>1, <1>2, <2>3
    <3>2. ASSUME NEW i \in 1..(n - k) PROVE rest[i] = F[k + i]
      <4>1. rest[i] = F[(k + 1) + i - 1]
        BY <1>1, <1>2, <2>3
      <4>2. QED BY <4>1
    <3>3. QED BY <2>1, <3>1, <3>2
  <2>4. QED BY <1>1, <2>2, <2>3
<1>4. k = n <=> rest = <<>>
  BY <1>1, <1>3
<1>5. ASSUME k < n
      PROVE  Head(rest) = F[k + 1] /\ Tail(rest) = SubSeq(F, k + 2, n)
  <2>1. rest # <<>> /\ Head(rest) = rest[1] /\ 1 \in 1..(n - k)
    BY <1>1, <1>3, <1>5
  <2>2. PICK t : t = Tail(rest)
    OBVIOUS
  <2>3. t \in Seq(S) /\ Len(t) = n - k - 1 /\ \A i \in 1..(n - k - 1) : t[i] = rest[i + 1]
    <3>1. t \in Seq(S) /\ Len(t) = Len(rest) - 1
      BY <1>3, <2>1, <2>2
    <3>2. ASSUME NEW i \in 1..(n - k - 1) PROVE t[i] = rest[i + 1]
      <4>1. i \in 1..(Len(rest) - 1)
        BY <1>3
      <4>2. QED BY <1>3, <2>1, <2>2, <4>1
    <3>3. QED BY <1>1, <1>3, <3>1, <3>2
  <2>4. PICK u : u = SubSeq(F, k + 2, n)
    OBVIOUS
  <2>5. u \in Seq(S) /\ Len(u) = n - k - 1 /\ \A i \in 1..(n - k - 1) : u[i] = F[k + 1 + i]
    <3>1. PICK m \in Nat : m = k + 2 /\ m <= n + 1 /\ F \in Seq(S) /\ Len(F) = n
      BY <1>1, <1>5
    <3>2. u = SubSeq(F, m, n)
      BY <2>4, <3>1
    <3>3. u \in Seq(S) /\ Len(u) = n - m + 1
      BY <3>1, <3>2
    <3>4. \A i \in 1..(n - m + 1) : u[i] = F[m + i - 1]
      BY <3>1, <3>2
    <3>5. n - m + 1 = n - k - 1 /\ \A i \in 1..(n - k - 1) : m + i - 1 = k + 1 + i
      BY <1>1, <3>1
    <3>6. QED BY <3>3, <3>4, <3>5
  <2>6. \A i \in 1..(n - k - 1) : t[i] = u[i]
    <3> SUFFICES ASSUME NEW i \in 1..(n - k - 1) PROVE t[i] = u[i]
      OBVIOUS
    <3>1. i + 1 \in 1..(n - k) /\ k + (i + 1) = k + 1 + i
      BY <1>1
    <3>2. QED BY <1>3, <2>3, <2>5, <3>1
  <2>7. t = u
    BY <2>3, <2>5, <2>6
  <2>8. QED BY <1>3, <2>1, <2>2, <2>4, <2>7
<1>6. QED BY <1>1, <1>2, <1>4, <1>5

\* A field of the width asked for is read, anything else is not.
LEMMA ReadsNext ==
  ASSUME NEW S, NEW F \in Seq(S), NEW k \in 0..Len(F), NEW m, m = k + 1,
         NEW w, NEW read, NEW ops
  PROVE  ReadExact(ReaderAt(F, k, read, ops), w) =
           IF w = 0 THEN ReaderAt(F, k, Append(read, <<>>), ops)
           ELSE IF k < Len(F) /\ F[m].width = w
                  THEN ReaderAt(F, m, Append(read, F[m].value), ops)
                  ELSE Fail(ReaderAt(F, k, read, ops), "UnexpectedEof")
<1>1. PICK rest : rest = SubSeq(F, k + 1, Len(F))
  OBVIOUS
<1>2. /\ k < Len(F) <=> rest # <<>>
      /\ k < Len(F) => Head(rest) = F[m] /\ Tail(rest) = SubSeq(F, m + 1, Len(F))
  <2>1. m + 1 = k + 2
    OBVIOUS
  <2>2. QED BY <1>1, <2>1, RestAt
<1>3. ReaderAt(F, k, read, ops) = Reader(rest, read, ops)
  BY <1>1 DEF ReaderAt
<1>4. CASE w # 0 /\ k < Len(F) /\ F[m].width = w
  <2>1. ReaderAt(F, m, Append(read, F[m].value), ops) =
          Reader(Tail(rest), Append(read, Head(rest).value), ops)
    BY <1>2, <1>4 DEF ReaderAt
  <2>2. QED BY <1>2, <1>3, <1>4, <2>1, ReadsRest
<1>5. CASE w # 0 /\ ~ (k < Len(F) /\ F[m].width = w)
  BY <1>2, <1>3, <1>5, ReadsRest
<1>6. CASE w = 0
  <2>1. ReaderAt(F, k, Append(read, <<>>), ops) = Reader(rest, Append(read, <<>>), ops)
    BY <1>1 DEF ReaderAt
  <2>2. QED BY <1>3, <1>6, <2>1, ReadsRest
<1>7. QED BY <1>4, <1>5, <1>6

\* What has failed stays failed.
LEMMA StaysFailed ==
  ASSUME NEW r, Failed(r)
  PROVE  \A w : ReadExact(r, w) = r
BY DEF ReadExact

LEMMA ReaderOf ==
  ASSUME NEW rest, NEW read, NEW ops, NEW error, error # NoError
  PROVE  /\ ~ Failed(Reader(rest, read, ops))
         /\ Failed(Fail(Reader(rest, read, ops), error))
         /\ Fail(Reader(rest, read, ops), error).error = error
         /\ LastRead(Reader(rest, read, ops)) = Last(read)
         /\ Unread(Reader(rest, read, ops)) = Reader(rest, Front(read), ops)
BY DEF Reader, Failed, Fail, LastRead, Unread, NoError

LEMMA CursorOf ==
  ASSUME NEW F, NEW k, NEW read, NEW ops, NEW error, error # NoError
  PROVE  /\ ~ Failed(ReaderAt(F, k, read, ops))
         /\ Failed(Fail(ReaderAt(F, k, read, ops), error))
         /\ LastRead(ReaderAt(F, k, read, ops)) = Last(read)
         /\ Unread(ReaderAt(F, k, read, ops)) = ReaderAt(F, k, Front(read), ops)
BY ReaderOf DEF ReaderAt

LEMMA NewReaderIs ==
  ASSUME NEW S, NEW F \in Seq(S)
  PROVE  NewReader(F) = ReaderAt(F, 0, <<>>, <<>>)
<1>1. SubSeq(F, 0 + 1, Len(F)) = F
  OBVIOUS
<1>2. QED BY <1>1 DEF NewReader, ReaderAt, Reader

LEMMA LastUnread ==
  ASSUME NEW T, NEW read \in Seq(T), NEW e \in T
  PROVE  /\ Append(read, e) \in Seq(T)
         /\ Last(Append(read, e)) = e /\ Front(Append(read, e)) = read
         /\ Last(Front(Append(read, e))) = Last(read)
<1>1. PICK n \in Nat : n = Len(read)
  OBVIOUS
<1>2. PICK more : more = Append(read, e)
  OBVIOUS
<1>3. more \in Seq(T) /\ Len(more) = n + 1 /\ more[n + 1] = e /\ \A i \in 1..n : more[i] = read[i]
  BY <1>1, <1>2
<1>4. PICK front : front = SubSeq(more, 1, n)
  OBVIOUS
<1>5. front \in Seq(T) /\ Len(front) = n /\ \A i \in 1..n : front[i] = more[i]
  BY <1>3, <1>4
<1>6. front = read
  BY <1>1, <1>3, <1>5
<1>7. Front(more) = front
  BY <1>3, <1>4 DEF Front
<1>8. QED BY <1>2, <1>3, <1>6, <1>7 DEF Last

-------------------------------------------------------------------------------
(* Codec: headers *)

HasHeader(F) ==
  /\ Len(F) >= 3
  /\ F[1].width = 2 /\ F[1].value = "GW"
  /\ F[2].width = 1 /\ F[2].value = 2
  /\ F[3].width = 1

\* The header is read if it is there, with the tag last; otherwise reading fails.
LEMMA HeaderRead ==
  ASSUME NEW S, NEW F \in Seq(S), NEW V, \A field \in S : field.value \in V
  PROVE  IF HasHeader(F)
           THEN \E read \in Seq(V) :
                  ReadHeader(NewReader(F)) = ReaderAt(F, 3, Append(read, F[3].value), <<>>)
           ELSE Failed(ReadHeader(NewReader(F)))
<1>1. NewReader(F) = ReaderAt(F, 0, <<>>, <<>>)
  BY NewReaderIs
<1>2. PICK n \in Nat : n = Len(F)
  OBVIOUS
<1>3. \A i \in 1..n : F[i].value \in V
  BY <1>2
<1> DEFINE read1 == Append(<<>>, F[1].value)
           read2 == Append(read1, F[2].value)
           magic == ReadExact(NewReader(F), 2)
           known == Check(magic, LastRead(magic) = "GW", "InvalidMagic")
           version == ReadExact(known, 1)
           good == Check(version, LastRead(version) = 2, "UnsupportedVersion")
<1>4. ReadHeader(NewReader(F)) = ReadExact(good, 1)
  BY DEF ReadHeader
<1>5. "InvalidMagic" # NoError /\ "UnsupportedVersion" # NoError /\ "UnexpectedEof" # NoError
  BY DEF NoError
<1>6. /\ known = IF Failed(magic) \/ LastRead(magic) = "GW" THEN magic ELSE Fail(magic, "InvalidMagic")
      /\ good = IF Failed(version) \/ LastRead(version) = 2 THEN version
                                                          ELSE Fail(version, "UnsupportedVersion")
  BY DEF Check
<1>7. IF n >= 1 /\ F[1].width = 2 THEN magic = ReaderAt(F, 1, read1, <<>>) ELSE Failed(magic)
  <2>1. 0 \in 0..Len(F) /\ 1 = 0 + 1 /\ (0 < Len(F) <=> n >= 1) /\ 2 # 0
    BY <1>2
  <2>2. magic = IF 0 < Len(F) /\ F[1].width = 2 THEN ReaderAt(F, 1, read1, <<>>)
                ELSE Fail(ReaderAt(F, 0, <<>>, <<>>), "UnexpectedEof")
    <3>1. PICK empty : empty = <<>>
      OBVIOUS
    <3>2. ReadExact(ReaderAt(F, 0, empty, empty), 2) =
            IF 0 < Len(F) /\ F[1].width = 2 THEN ReaderAt(F, 1, Append(empty, F[1].value), empty)
            ELSE Fail(ReaderAt(F, 0, empty, empty), "UnexpectedEof")
      BY <2>1, ReadsNext
    <3>3. QED BY <1>1, <3>1, <3>2
  <2>3. QED BY <1>5, <2>1, <2>2, CursorOf
<1>8. n >= 1 => read1 \in Seq(V) /\ Last(read1) = F[1].value
  <2>1. <<>> \in Seq(V) /\ (n >= 1 => 1 \in 1..n)
    OBVIOUS
  <2>2. QED BY <1>3, <2>1, LastUnread
<1> DEFINE Magic == n >= 1 /\ F[1].width = 2 /\ F[1].value = "GW"
<1> HIDE DEF magic, read1
<1>9. IF Magic THEN known = ReaderAt(F, 1, read1, <<>>) ELSE Failed(known)
  <2> HIDE DEF known
  <2>1. CASE n >= 1 /\ F[1].width = 2
    <3>1. ~ Failed(magic) /\ LastRead(magic) = F[1].value /\ Failed(Fail(magic, "InvalidMagic"))
      BY <1>5, <1>7, <1>8, <2>1, CursorOf
    <3>2. QED BY <1>6, <1>7, <2>1, <3>1
  <2>2. CASE ~ (n >= 1 /\ F[1].width = 2)
    BY <1>6, <1>7, <2>2
  <2>3. QED BY <2>1, <2>2
<1> HIDE DEF known
<1>10. IF Magic /\ n >= 2 /\ F[2].width = 1
        THEN version = ReaderAt(F, 2, read2, <<>>) ELSE Failed(version)
  <2>1. CASE Magic
    <3>1. 1 \in 0..Len(F) /\ 2 = 1 + 1 /\ (1 < Len(F) <=> n >= 2) /\ 1 # 0
      BY <1>2, <2>1
    <3>2. version = IF 1 < Len(F) /\ F[2].width = 1 THEN ReaderAt(F, 2, read2, <<>>)
                    ELSE Fail(ReaderAt(F, 1, read1, <<>>), "UnexpectedEof")
      BY <1>9, <2>1, <3>1, ReadsNext
    <3> HIDE DEF version, read2
    <3>3. QED BY <1>5, <2>1, <3>1, <3>2, CursorOf
  <2>2. CASE ~ Magic
    BY <1>9, <2>2, StaysFailed
  <2>3. QED BY <2>1, <2>2
<1>11. Magic /\ n >= 2 => read2 \in Seq(V) /\ Last(read2) = F[2].value
  <2>1. n >= 2 => 2 \in 1..n
    OBVIOUS
  <2>2. QED BY <1>3, <1>8, <2>1, LastUnread
<1> DEFINE Version == Magic /\ n >= 2 /\ F[2].width = 1 /\ F[2].value = 2
<1> HIDE DEF version, read2
<1>12. IF Version THEN good = ReaderAt(F, 2, read2, <<>>) ELSE Failed(good)
  <2> HIDE DEF good, Magic
  <2>1. CASE Magic /\ n >= 2 /\ F[2].width = 1
    <3>1. ~ Failed(version) /\ LastRead(version) = F[2].value /\ Failed(Fail(version, "UnsupportedVersion"))
      BY <1>5, <1>10, <1>11, <2>1, CursorOf
    <3>2. QED BY <1>6, <1>10, <2>1, <3>1
  <2>2. CASE ~ (Magic /\ n >= 2 /\ F[2].width = 1)
    BY <1>6, <1>10, <2>2
  <2>3. QED BY <2>1, <2>2
<1> HIDE DEF good
<1>13. CASE Version
  <2>1. 2 \in 0..Len(F) /\ 3 = 2 + 1 /\ (2 < Len(F) <=> n >= 3) /\ 1 # 0
    BY <1>2, <1>13
  <2>2. ReadExact(good, 1) = IF 2 < Len(F) /\ F[3].width = 1
                             THEN ReaderAt(F, 3, Append(read2, F[3].value), <<>>)
                             ELSE Fail(ReaderAt(F, 2, read2, <<>>), "UnexpectedEof")
    BY <1>12, <1>13, <2>1, ReadsNext
  <2>3. HasHeader(F) <=> n >= 3 /\ F[3].width = 1
    BY <1>2, <1>13 DEF HasHeader
  <2>4. Failed(Fail(ReaderAt(F, 2, read2, <<>>), "UnexpectedEof"))
    BY <1>5, CursorOf
  <2>5. QED BY <1>4, <1>11, <1>13, <2>1, <2>2, <2>3, <2>4
<1>14. CASE ~ Version
  <2>1. ~ HasHeader(F)
    BY <1>2, <1>14 DEF HasHeader
  <2>2. QED BY <1>4, <1>12, <1>14, <2>1, StaysFailed
<1>15. QED BY <1>13, <1>14

-------------------------------------------------------------------------------
(* Codec: payloads and client messages *)

HasBytes(F, k) ==
  /\ k < Len(F) /\ F[k + 1].width = 4 /\ F[k + 1].value <= MaxPayloadLen
  /\ F[k + 1].value # 0 => k + 1 < Len(F) /\ F[k + 2].width = F[k + 1].value

\* A payload is read if its length is there, allowed, and followed by as many bytes.
LEMMA BytesRead ==
  ASSUME NEW S, NEW F \in Seq(S), NEW V, \A field \in S : field.value \in V,
         NEW k \in 0..Len(F), NEW read \in Seq(V), NEW ops
  PROVE  IF HasBytes(F, k)
           THEN ReadBytes(ReaderAt(F, k, read, ops)) =
                  IF F[k + 1].value = 0 THEN ReaderAt(F, k + 1, Append(read, <<>>), ops)
                  ELSE ReaderAt(F, k + 2, Append(read, F[k + 2].value), ops)
           ELSE Failed(ReadBytes(ReaderAt(F, k, read, ops)))
<1>1. PICK n, m, p : n \in Nat /\ n = Len(F) /\ m = k + 1 /\ p = m + 1
  OBVIOUS
<1>2. \A i \in 1..n : F[i].value \in V
  BY <1>1
<1> DEFINE more == Append(read, F[m].value)
           len == ReadExact(ReaderAt(F, k, read, ops), 4)
           ok == Check(len, LastRead(len) <= MaxPayloadLen, "PayloadTooLarge")
<1>3. ReadBytes(ReaderAt(F, k, read, ops)) = IF Failed(ok) THEN ok ELSE ReadExact(Unread(ok), LastRead(ok))
  BY DEF ReadBytes
<1>4. ok = IF Failed(len) \/ LastRead(len) <= MaxPayloadLen THEN len ELSE Fail(len, "PayloadTooLarge")
  BY DEF Check
<1>5. "PayloadTooLarge" # NoError /\ "UnexpectedEof" # NoError
  BY DEF NoError
<1>6. len = IF k < Len(F) /\ F[m].width = 4 THEN ReaderAt(F, m, more, ops)
            ELSE Fail(ReaderAt(F, k, read, ops), "UnexpectedEof")
  BY <1>1, ReadsNext
<1>7. k < n => Last(more) = F[m].value /\ Front(more) = read
  <2>1. k < n => m \in 1..n
    BY <1>1
  <2>2. QED BY <1>2, <2>1, LastUnread
<1> HIDE DEF len, ok, more
<1>8. CASE ~ (k < n /\ F[m].width = 4)
  <2>1. ~ HasBytes(F, k)
    BY <1>1, <1>8 DEF HasBytes
  <2>2. Failed(len)
    BY <1>1, <1>5, <1>6, <1>8, CursorOf
  <2>3. QED BY <1>3, <1>4, <2>1, <2>2
<1>9. CASE k < n /\ F[m].width = 4
  <2>1. len = ReaderAt(F, m, more, ops) /\ Last(more) = F[m].value /\ Front(more) = read
    BY <1>1, <1>6, <1>7, <1>9
  <2>2. /\ ~ Failed(len) /\ LastRead(len) = F[m].value /\ Unread(len) = ReaderAt(F, m, read, ops)
        /\ Failed(Fail(len, "PayloadTooLarge"))
    BY <1>5, <2>1, CursorOf
  <2>3. CASE ~ (F[m].value <= MaxPayloadLen)
    <3>1. ~ HasBytes(F, k)
      BY <1>1, <2>3 DEF HasBytes
    <3>2. QED BY <1>3, <1>4, <2>2, <2>3, <3>1
  <2>4. CASE F[m].value <= MaxPayloadLen
    <3>1. ReadBytes(ReaderAt(F, k, read, ops)) = ReadExact(ReaderAt(F, m, read, ops), F[m].value)
      BY <1>3, <1>4, <2>2, <2>4
    <3>2. m \in 0..Len(F)
      BY <1>1, <1>9
    <3>3. ReadExact(ReaderAt(F, m, read, ops), F[m].value) =
            IF F[m].value = 0 THEN ReaderAt(F, m, Append(read, <<>>), ops)
            ELSE IF m < Len(F) /\ F[p].width = F[m].value
                   THEN ReaderAt(F, p, Append(read, F[p].value), ops)
                   ELSE Fail(ReaderAt(F, m, read, ops), "UnexpectedEof")
      BY <1>1, <3>2, ReadsNext
    <3>4. HasBytes(F, k) <=> (F[m].value # 0 => m < Len(F) /\ F[p].width = F[m].value)
      <4>1. p = k + 2
        BY <1>1
      <4>2. QED BY <1>1, <1>9, <2>4, <4>1 DEF HasBytes
    <3>5. Failed(Fail(ReaderAt(F, m, read, ops), "UnexpectedEof"))
      BY <1>5, CursorOf
    <3>6. p = k + 2
      BY <1>1
    <3>7. QED BY <1>1, <3>1, <3>3, <3>4, <3>5, <3>6
  <2>5. QED BY <2>3, <2>4
<1>10. QED BY <1>8, <1>9

AckFrame(F) == HasHeader(F) /\ F[3].value = 1 /\ Len(F) = 4 /\ F[4].width = 8
InputFrame(F) ==
  /\ HasHeader(F) /\ F[3].value = 2
  /\ HasBytes(F, 3)
  /\ Len(F) = IF F[4].value = 0 THEN 4 ELSE 5

LEMMA FinishAt ==
  ASSUME NEW S, NEW F \in Seq(S), NEW k \in 0..Len(F), NEW read, NEW ops, NEW message
  PROVE  IF k = Len(F) THEN Decoded(ReaderAt(F, k, read, ops), message) = [error |-> NoError, message |-> message]
         ELSE Decoded(ReaderAt(F, k, read, ops), message).error # NoError
<1>1. PICK rest : rest = SubSeq(F, k + 1, Len(F))
  OBVIOUS
<1>2. PICK r : r = Reader(rest, read, ops)
  OBVIOUS
<1>3. ReaderAt(F, k, read, ops) = r /\ (k = Len(F) <=> rest = <<>>)
  BY <1>1, <1>2, RestAt DEF ReaderAt
<1>4. "TrailingBytes" # NoError
  BY DEF NoError
<1>5. ~ Failed(r) /\ Failed(Fail(r, "TrailingBytes")) /\ r.rest = rest
  BY <1>2, <1>4, ReaderOf DEF Reader
<1>6. Finish(r) = IF rest = <<>> THEN r ELSE Fail(r, "TrailingBytes")
  BY <1>5 DEF Finish, Check
<1>7. CASE rest = <<>>
  BY <1>3, <1>5, <1>6, <1>7 DEF Decoded
<1>8. CASE rest # <<>>
  BY <1>3, <1>5, <1>6, <1>8 DEF Decoded, Failed
<1>9. QED BY <1>7, <1>8

LEMMA FailedIsRefused ==
  ASSUME NEW r, Failed(r), NEW message
  PROVE  Decoded(r, message).error # NoError
BY DEF Decoded, Finish, Check, Failed

\* The server reads a message out of a whole frame, and out of nothing else.
LEMMA ClientMessageRead ==
  ASSUME NEW S, NEW F \in Seq(S)
  PROVE  /\ AckFrame(F) => DecodeClientMessage(F) = [error |-> NoError, message |-> AckSnapshot(F[4].value)]
         /\ InputFrame(F) => DecodeClientMessage(F) =
              [error |-> NoError, message |-> Input(IF F[4].value = 0 THEN <<>> ELSE F[5].value)]
         /\ ~ AckFrame(F) /\ ~ InputFrame(F) => DecodeClientMessage(F).error # NoError
<1>1. PICK n \in Nat : n = Len(F)
  OBVIOUS
<1>2. PICK V : V = {field.value : field \in S} \cup {<<>>}
  OBVIOUS
<1>3. (\A field \in S : field.value \in V) /\ (\A i \in 1..n : F[i].value \in V) /\ <<>> \in V
  BY <1>1, <1>2
<1> DEFINE head == ReadHeader(NewReader(F))
           tag == LastRead(head)
           sequence == ReadExact(head, 8)
           payload == ReadBytes(head)
<1>4. DecodeClientMessage(F) =
        IF Failed(head) THEN Decoded(head, NoMessage)
        ELSE IF tag = 1 THEN Decoded(sequence, AckSnapshot(LastRead(sequence)))
        ELSE IF tag = 2 THEN Decoded(payload, Input(LastRead(payload)))
        ELSE Decoded(Fail(head, "UnknownMessageTag"), NoMessage)
  BY DEF DecodeClientMessage, Tag
<1>5. CASE ~ HasHeader(F)
  <2>1. Failed(head)
    BY <1>3, <1>5, HeaderRead
  <2>2. ~ AckFrame(F) /\ ~ InputFrame(F)
    BY <1>5 DEF AckFrame, InputFrame
  <2> HIDE DEF head, tag, sequence, payload
  <2>3. QED BY <1>4, <2>1, <2>2, FailedIsRefused
<1>6. CASE HasHeader(F)
  <2>1. PICK before \in Seq(V) : head = ReaderAt(F, 3, Append(before, F[3].value), <<>>)
    BY <1>3, <1>6, HeaderRead
  <2>2. n >= 3 /\ 3 \in 0..Len(F) /\ 3 \in 1..n
    BY <1>1, <1>6 DEF HasHeader
  <2>3. PICK read : read = Append(before, F[3].value)
    OBVIOUS
  <2>4. read \in Seq(V) /\ Last(read) = F[3].value
    BY <1>3, <2>2, <2>3, LastUnread
  <2>5. "UnexpectedEof" # NoError /\ "UnknownMessageTag" # NoError
    BY DEF NoError
  <2>6. /\ head = ReaderAt(F, 3, read, <<>>) /\ ~ Failed(head) /\ tag = F[3].value
        /\ Failed(Fail(head, "UnknownMessageTag"))
    <3> HIDE DEF head
    <3> QED BY <2>1, <2>3, <2>4, <2>5, CursorOf
  <2> HIDE DEF head, tag
  <2>7. CASE F[3].value = 1
    <3>1. sequence = IF 3 < Len(F) /\ F[4].width = 8 THEN ReaderAt(F, 4, Append(read, F[4].value), <<>>)
                     ELSE Fail(ReaderAt(F, 3, read, <<>>), "UnexpectedEof")
      <4>1. 4 = 3 + 1 /\ 8 # 0
        OBVIOUS
      <4>2. PICK ops : ops = <<>>
        OBVIOUS
      <4>3. ReadExact(ReaderAt(F, 3, read, ops), 8) =
              IF 3 < Len(F) /\ F[4].width = 8 THEN ReaderAt(F, 4, Append(read, F[4].value), ops)
              ELSE Fail(ReaderAt(F, 3, read, ops), "UnexpectedEof")
        BY <2>2, <4>1, ReadsNext
      <4>4. QED BY <2>6, <4>2, <4>3
    <3> HIDE DEF sequence, payload
    <3>2. ~ InputFrame(F) /\ (AckFrame(F) <=> n = 4 /\ F[4].width = 8)
      BY <1>1, <1>6, <2>7 DEF InputFrame, AckFrame
    <3>3. DecodeClientMessage(F) = Decoded(sequence, AckSnapshot(LastRead(sequence)))
      BY <1>4, <2>6, <2>7
    <3>4. CASE n > 3 /\ F[4].width = 8
      <4>1. 4 \in 1..n /\ 4 \in 0..Len(F)
        BY <1>1, <3>4
      <4>2. LastRead(sequence) = F[4].value /\ sequence = ReaderAt(F, 4, Append(read, F[4].value), <<>>)
        <5>1. sequence = ReaderAt(F, 4, Append(read, F[4].value), <<>>)
          BY <1>1, <3>1, <3>4
        <5>2. Last(Append(read, F[4].value)) = F[4].value
          BY <1>3, <2>4, <4>1, LastUnread
        <5>3. QED BY <2>5, <5>1, <5>2, CursorOf
      <4>3. PICK ack : ack = AckSnapshot(F[4].value)
        OBVIOUS
      <4>4. PICK all, ops : all = Append(read, F[4].value) /\ ops = <<>>
        OBVIOUS
      <4>5. PICK k \in 0..Len(F) : k = 4
        BY <4>1
      <4>6. DecodeClientMessage(F) = Decoded(ReaderAt(F, k, all, ops), ack)
        BY <3>3, <4>2, <4>3, <4>4, <4>5, Zenon
      <4>7. IF k = Len(F) THEN Decoded(ReaderAt(F, k, all, ops), ack) = [error |-> NoError, message |-> ack]
            ELSE Decoded(ReaderAt(F, k, all, ops), ack).error # NoError
        BY FinishAt
      <4>8. AckFrame(F) <=> k = Len(F)
        BY <1>1, <3>2, <3>4, <4>5
      <4>9. AckFrame(F) => DecodeClientMessage(F) = [error |-> NoError, message |-> AckSnapshot(F[4].value)]
        BY <4>3, <4>6, <4>7, <4>8, Zenon
      <4>10. ~ AckFrame(F) => DecodeClientMessage(F).error # NoError
        BY <4>6, <4>7, <4>8, Zenon
      <4>11. QED BY <3>2, <4>9, <4>10, Zenon
    <3>5. CASE ~ (n > 3 /\ F[4].width = 8)
      <4>1. Failed(sequence) /\ ~ AckFrame(F)
        <5>1. sequence = Fail(ReaderAt(F, 3, read, <<>>), "UnexpectedEof")
          BY <1>1, <3>1, <3>5
        <5>2. Failed(sequence)
          BY <2>5, <5>1, CursorOf
        <5>3. QED BY <3>2, <3>5, <5>2
      <4>2. QED BY <3>2, <3>3, <4>1, FailedIsRefused
    <3>6. QED BY <3>4, <3>5
  <2>8. CASE F[3].value = 2
    <3>1. IF HasBytes(F, 3)
            THEN payload = IF F[4].value = 0 THEN ReaderAt(F, 4, Append(read, <<>>), <<>>)
                           ELSE ReaderAt(F, 5, Append(read, F[5].value), <<>>)
            ELSE Failed(payload)
      <4>1. 4 = 3 + 1 /\ 5 = 3 + 2
        OBVIOUS
      <4>2. PICK ops : ops = <<>>
        OBVIOUS
      <4>3. IF HasBytes(F, 3)
              THEN ReadBytes(ReaderAt(F, 3, read, ops)) =
                     IF F[3 + 1].value = 0 THEN ReaderAt(F, 3 + 1, Append(read, <<>>), ops)
                     ELSE ReaderAt(F, 3 + 2, Append(read, F[3 + 2].value), ops)
              ELSE Failed(ReadBytes(ReaderAt(F, 3, read, ops)))
        BY <1>3, <2>2, <2>4, BytesRead
      <4>4. QED BY <2>6, <4>1, <4>2, <4>3
    <3> HIDE DEF sequence, payload
    <3>2. ~ AckFrame(F) /\ (InputFrame(F) <=> HasBytes(F, 3) /\ n = IF F[4].value = 0 THEN 4 ELSE 5)
      BY <1>1, <1>6, <2>8 DEF InputFrame, AckFrame
    <3>3. DecodeClientMessage(F) = Decoded(payload, Input(LastRead(payload)))
      BY <1>4, <2>6, <2>8
    <3>4. CASE HasBytes(F, 3) /\ F[4].value = 0
      <4>1. 4 \in 0..Len(F)
        BY <1>1, <3>4 DEF HasBytes
      <4>2. LastRead(payload) = <<>> /\ payload = ReaderAt(F, 4, Append(read, <<>>), <<>>)
        <5>1. payload = ReaderAt(F, 4, Append(read, <<>>), <<>>)
          BY <3>1, <3>4
        <5>2. Last(Append(read, <<>>)) = <<>>
          BY <1>3, <2>4, LastUnread
        <5>3. LastRead(ReaderAt(F, 4, Append(read, <<>>), <<>>)) = Last(Append(read, <<>>))
          BY DEF LastRead, ReaderAt, Reader
        <5>4. QED BY <5>1, <5>2, <5>3
      <4>3. QED BY <1>1, <3>2, <3>3, <3>4, <4>1, <4>2, FinishAt
    <3>5. CASE HasBytes(F, 3) /\ F[4].value # 0
      <4>1. 5 \in 0..Len(F) /\ 5 \in 1..n
        BY <1>1, <3>5 DEF HasBytes
      <4>2. LastRead(payload) = F[5].value /\ payload = ReaderAt(F, 5, Append(read, F[5].value), <<>>)
        <5>1. payload = ReaderAt(F, 5, Append(read, F[5].value), <<>>)
          BY <3>1, <3>5
        <5>2. Last(Append(read, F[5].value)) = F[5].value
          BY <1>3, <2>4, <4>1, LastUnread
        <5>3. LastRead(ReaderAt(F, 5, Append(read, F[5].value), <<>>)) = Last(Append(read, F[5].value))
          BY DEF LastRead, ReaderAt, Reader
        <5>4. QED BY <5>1, <5>2, <5>3
      <4>3. QED BY <1>1, <3>2, <3>3, <3>5, <4>1, <4>2, FinishAt
    <3>6. CASE ~ HasBytes(F, 3)
      BY <3>1, <3>2, <3>3, <3>6, FailedIsRefused
    <3>7. QED BY <3>4, <3>5, <3>6
  <2>9. CASE F[3].value # 1 /\ F[3].value # 2
    <3>1. ~ AckFrame(F) /\ ~ InputFrame(F)
      BY <2>9 DEF AckFrame, InputFrame
    <3> HIDE DEF sequence, payload
    <3>2. DecodeClientMessage(F) = Decoded(Fail(head, "UnknownMessageTag"), NoMessage)
      BY <1>4, <2>6, <2>9
    <3>3. QED BY <2>6, <3>1, <3>2, FailedIsRefused
  <2>10. QED BY <2>7, <2>8, <2>9
<1>7. QED BY <1>5, <1>6
-------------------------------------------------------------------------------
(* Codec: lengths of payloads *)

WidthsEquation(f, frame) ==
  f = [s \in SUBSET DOMAIN frame |-> IF s = {} THEN 0 ELSE f[s \ {Max(s)}] + frame[Max(s)].width]

LEMMA SequenceIs ==
  ASSUME NEW s, IsSequence(s)
  PROVE  s \in Seq(Range(s)) /\ s \in [1..Len(s) -> Range(s)] /\ Len(s) \in Nat
<1>1. PICK n \in Nat : n = Len(s) /\ s = [i \in 1..n |-> s[i]]
  BY DEF IsSequence
<1>2. s \in [1..n -> Range(s)]
  BY <1>1 DEF Range
<1>3. QED BY <1>1, <1>2

LEMMA BytesIsLoop ==
  ASSUME NEW n \in Nat, NEW B, NEW frame \in [1..n -> B], \A i \in 1..n : frame[i].width \in Nat
  PROVE  \E p : /\ p[0] = 0 /\ \A i \in 1..n : p[i] = p[i - 1] + frame[i].width
                /\ Bytes(frame) = p[n]
<1> DEFINE S == {field \in B : field.width \in Nat}
           step == [r \in Nat \X S |-> r[1] + r[2].width]
<1>1. step \in [Nat \X S -> Nat] /\ 0 \in Nat /\ frame \in [1..n -> S]
  <2>1. \A m \in Nat, field \in S : m + field.width \in Nat
    OBVIOUS
  <2>2. QED BY <2>1
<1>2. \A m \in Nat, field \in S : step[<<m, field>>] = m + field.width
  OBVIOUS
<1> HIDE DEF S, step
<1>3. PICK f : IsLoop(f, frame, 0, step, Nat, S)
  BY <1>1, LoopExists
<1>4. WidthsEquation(f, frame)
  <2>1. \A s \in SUBSET DOMAIN frame :
          s # {} => step[<<f[s \ {Max(s)}], frame[Max(s)]>>] = f[s \ {Max(s)}] + frame[Max(s)].width
    BY <1>2, <1>3 DEF IsLoop
  <2>2. QED BY <1>3, <2>1 DEF WidthsEquation, IsLoop
<1> DEFINE h == CHOOSE k : WidthsEquation(k, frame)
<1>5. WidthsEquation(h, frame)
  BY <1>4
<1>6. Bytes(frame) = h[DOMAIN frame]
  BY DEF Bytes, FoldLeft, MapThenFoldSet, WidthsEquation
<1> HIDE DEF h
<1> DEFINE p == [i \in 0..n |-> h[1..i]]
<1>7. p[0] = 0
  BY <1>5, FirstTurns DEF WidthsEquation
<1>8. ASSUME NEW i \in 1..n PROVE p[i] = p[i - 1] + frame[i].width
  <2>1. PICK s : s = 1..i
    OBVIOUS
  <2>2. s \in SUBSET DOMAIN frame /\ s # {} /\ Max(s) = i /\ s \ {i} = 1..(i - 1)
    BY <2>1, FirstTurns
  <2>3. h[s] = h[s \ {i}] + frame[i].width
    BY <1>5, <2>2 DEF WidthsEquation
  <2>4. i \in 0..n /\ i - 1 \in 0..n
    OBVIOUS
  <2>5. QED BY <2>1, <2>2, <2>3, <2>4
<1>9. p[n] = Bytes(frame)
  BY <1>6
<1>10. QED BY <1>7, <1>8, <1>9

LEMMA BytesOfPayload ==
  ASSUME NEW p, IsPayload(p)
  PROVE  Bytes(p) \in Nat /\ (p # <<>> <=> Bytes(p) # 0)
<1>1. PICK n \in Nat : n = Len(p)
  BY DEF IsPayload, IsSequence
<1>2. p \in [1..n -> Range(p)] /\ \A i \in 1..n : p[i].width \in Nat \ {0}
  BY <1>1, SequenceIs DEF IsPayload
<1>3. PICK sum : sum[0] = 0 /\ (\A i \in 1..n : sum[i] = sum[i - 1] + p[i].width) /\ Bytes(p) = sum[n]
  BY <1>2, BytesIsLoop
<1> DEFINE C == {i \in 0..n : ~ (sum[i] \in Nat /\ sum[i] >= i)}
<1>4. 0 \notin C
  BY <1>3
<1>5. ASSUME NEW i \in 1..n, i \in C PROVE i - 1 \in C
  <2>1. sum[i] = sum[i - 1] + p[i].width /\ p[i].width \in Nat \ {0} /\ i - 1 \in 0..n
    BY <1>2, <1>3
  <2>2. QED BY <1>5, <2>1
<1>6. C = {}
  <2>1. C \subseteq 0..n
    OBVIOUS
  <2> HIDE DEF C
  <2>2. QED BY <1>4, <1>5, <2>1, NoFirstFailure
<1>7. Bytes(p) \in Nat /\ Bytes(p) >= n
  BY <1>3, <1>6
<1>8. p = <<>> <=> n = 0
  BY <1>1, SequenceIs DEF IsPayload
<1>9. n = 0 => Bytes(p) = 0
  BY <1>3
<1>10. QED BY <1>7, <1>8, <1>9

-------------------------------------------------------------------------------
(* Codec: frames whole and damaged *)

\* what the server reads of a frame
Reads(frame, message) ==
  IF message = NoMessage THEN DecodeClientMessage(frame).error # NoError
  ELSE DecodeClientMessage(frame) = [error |-> NoError, message |-> message]

\* frames clients write, by their fields
IsHeaded(F, t) ==
  /\ Len(F) >= 4
  /\ F[1] = Field(2, "GW") /\ F[2] = Field(1, 2) /\ F[3] = Field(1, t)

IsAck(F, n) == IsHeaded(F, 1) /\ Len(F) = 4 /\ F[4] = Field(8, n)
IsInput(F, p) ==
  /\ IsHeaded(F, 2)
  /\ F[4] = Field(4, Bytes(p))
  /\ IF p = <<>> THEN Len(F) = 4 ELSE Len(F) = 5 /\ F[5] = Field(Bytes(p), p)

LEMMA HeaderOf ==
  ASSUME NEW F, NEW t, IsHeaded(F, t)
  PROVE  HasHeader(F) /\ F[3].value = t
BY DEF IsHeaded, HasHeader, Field

LEMMA AckIsRead ==
  ASSUME NEW S, NEW F \in Seq(S), NEW n, IsAck(F, n)
  PROVE  Reads(F, AckSnapshot(n))
<1>1. AckFrame(F) /\ F[4].value = n
  BY HeaderOf DEF IsAck, AckFrame, Field
<1>2. AckSnapshot(n) # NoMessage
  BY DEF AckSnapshot, NoMessage
<1>3. QED BY <1>1, <1>2, ClientMessageRead DEF Reads

LEMMA InputIsRead ==
  ASSUME NEW S, NEW F \in Seq(S), NEW p, IsPayload(p), IsInput(F, p)
  PROVE  Reads(F, Written(F, Input(p)).message)
<1>1. HasHeader(F) /\ F[3].value = 2 /\ F[4].width = 4 /\ F[4].value = Bytes(p)
  BY HeaderOf DEF IsInput, Field
<1>2. Bytes(p) \in Nat /\ (p # <<>> <=> Bytes(p) # 0)
  BY BytesOfPayload
<1>3. Written(F, Input(p)).message = IF Bytes(p) <= MaxPayloadLen THEN Input(p) ELSE NoMessage
  BY DEF Written, Readable, Input
<1>4. p # <<>> => Len(F) = 5 /\ F[5].width = Bytes(p) /\ F[5].value = p
  BY DEF IsInput, Field
<1>5. p = <<>> => Len(F) = 4
  BY DEF IsInput
<1>6. ~ AckFrame(F)
  BY <1>1 DEF AckFrame
<1>7. HasBytes(F, 3) <=> Bytes(p) <= MaxPayloadLen
  <2>1. 3 + 1 = 4 /\ 3 + 2 = 5
    OBVIOUS
  <2>2. HasBytes(F, 3) <=> /\ 3 < Len(F) /\ F[4].width = 4 /\ F[4].value <= MaxPayloadLen
                           /\ F[4].value # 0 => 4 < Len(F) /\ F[5].width = F[4].value
    BY <2>1 DEF HasBytes
  <2>3. QED BY <1>1, <1>2, <1>4, <1>5, <2>2
<1>8. InputFrame(F) <=> Bytes(p) <= MaxPayloadLen
  BY <1>1, <1>2, <1>4, <1>5, <1>7 DEF InputFrame
<1>9. Input(p) # NoMessage
  BY DEF Input, NoMessage
<1>10. CASE Bytes(p) <= MaxPayloadLen
  <2>1. DecodeClientMessage(F) = [error |-> NoError, message |-> Input(p)]
    BY <1>1, <1>2, <1>4, <1>5, <1>8, <1>10, ClientMessageRead
  <2>2. QED BY <1>3, <1>9, <1>10, <2>1 DEF Reads
<1>11. CASE ~ (Bytes(p) <= MaxPayloadLen)
  BY <1>3, <1>6, <1>8, <1>11, ClientMessageRead DEF Reads
<1>12. QED BY <1>10, <1>11

LEMMA IsSeq ==
  ASSUME NEW n \in Nat, NEW D, D = [i \in 1..n |-> D[i]]
  PROVE  D \in Seq({D[i] : i \in 1..n}) /\ Len(D) = n
<1>1. D \in [1..n -> {D[i] : i \in 1..n}]
  OBVIOUS
<1>2. QED BY <1>1

\* The whole frame of some message, as either side writes it
IsWritten(F) == (\E n : IsAck(F, n)) \/ (\E p : IsPayload(p) /\ IsInput(F, p))

Refused(D) == ~ AckFrame(D) /\ ~ InputFrame(D)

LEMMA RefusedIsRead ==
  ASSUME NEW S, NEW D \in Seq(S), Refused(D)
  PROVE  Reads(D, NoMessage)
BY ClientMessageRead DEF Refused, Reads

\* what is known of a written frame
LEMMA WrittenIs ==
  ASSUME NEW F, IsWritten(F)
  PROVE  /\ HasHeader(F)
         /\ \/ F[3].value = 1 /\ Len(F) = 4 /\ F[4].width = 8
            \/ /\ F[3].value = 2 /\ F[4].width = 4 /\ F[4].value \in Nat
               /\ IF F[4].value = 0 THEN Len(F) = 4 ELSE Len(F) = 5 /\ F[5].width = F[4].value
<1>1. CASE \E n : IsAck(F, n)
  BY <1>1, HeaderOf DEF IsAck, Field
<1>2. ASSUME NEW p, IsPayload(p), IsInput(F, p)
      PROVE  /\ HasHeader(F) /\ F[3].value = 2 /\ F[4].width = 4 /\ F[4].value \in Nat
             /\ IF F[4].value = 0 THEN Len(F) = 4 ELSE Len(F) = 5 /\ F[5].width = F[4].value
  <2>1. Bytes(p) \in Nat /\ (p # <<>> <=> Bytes(p) # 0)
    BY <1>2, BytesOfPayload
  <2>2. QED BY <1>2, <2>1, HeaderOf DEF IsInput, Field
<1>3. QED BY <1>1, <1>2 DEF IsWritten

\* for the cases of a payload and of none, in the terms of the indices read
LEMMA RefusedIf ==
  ASSUME NEW D, NEW n \in Nat, Len(D) = n
  PROVE  /\ ~ HasHeader(D) => Refused(D)
         /\ n < 4 => Refused(D)
         /\ D[3].value \notin {1, 2} => Refused(D)
         /\ D[3].value = 1 /\ (n # 4 \/ D[4].width # 8) => Refused(D)
         /\ D[3].value = 2 /\ D[4].width # 4 => Refused(D)
         /\ D[3].value = 2 /\ D[4].value = 0 /\ n # 4 => Refused(D)
         /\ D[3].value = 2 /\ D[4].value # 0 /\ (n # 5 \/ D[5].width # D[4].value) => Refused(D)
<1>1. 3 + 1 = 4 /\ 3 + 2 = 5
  OBVIOUS
<1>2. HasBytes(D, 3) <=> /\ 3 < n /\ D[4].width = 4 /\ D[4].value <= MaxPayloadLen
                         /\ D[4].value # 0 => 4 < n /\ D[5].width = D[4].value
  BY <1>1 DEF HasBytes
<1>3. /\ AckFrame(D) => HasHeader(D) /\ D[3].value = 1 /\ n = 4 /\ D[4].width = 8
      /\ InputFrame(D) => /\ HasHeader(D) /\ D[3].value = 2 /\ 3 < n /\ D[4].width = 4
                          /\ n = IF D[4].value = 0 THEN 4 ELSE 5
                          /\ D[4].value # 0 => D[5].width = D[4].value
  BY <1>2 DEF AckFrame, InputFrame
<1>4. QED BY <1>3 DEF Refused

LEMMA CutIsRefused ==
  ASSUME NEW S, NEW F \in Seq(S), IsWritten(F), NEW D \in CutOff(F)
  PROVE  D \in Seq(S) /\ Refused(D)
<1>1. PICK m \in Nat : m = Len(F)
  OBVIOUS
<1>2. PICK n \in 0..(m - 1) : D = SubSeq(F, 1, n)
  BY <1>1 DEF CutOff
<1>3. D \in Seq(S) /\ Len(D) = n /\ \A i \in 1..n : D[i] = F[i]
  BY <1>1, <1>2
<1>4. CASE n < 4
  <2>1. n \in Nat
    OBVIOUS
  <2>2. QED BY <1>3, <1>4, <2>1, RefusedIf
<1>5. CASE n >= 4
  <2>1. F[3].value = 2 /\ F[4].value # 0 /\ n = 4
    BY <1>1, <1>2, <1>5, WrittenIs
  <2>2. D[3].value = 2 /\ D[4].value # 0
    BY <1>3, <2>1
  <2>3. PICK l \in Nat : l = Len(D) /\ l # 5
    BY <1>3, <2>1
  <2>4. Refused(D)
    BY <2>2, <2>3, RefusedIf
  <2>5. QED BY <1>3, <2>4
<1>6. n < 4 \/ n >= 4
  OBVIOUS
<1>7. QED BY <1>3, <1>4, <1>5, <1>6

LEMMA ShortIsRefused ==
  ASSUME NEW S, NEW F \in Seq(S), IsWritten(F), NEW D \in Shortened(F)
  PROVE  (\E T : D \in Seq(T)) /\ Refused(D)
<1>1. PICK m \in Nat : m = Len(F)
  OBVIOUS
<1>2. m \in 1..m /\ F[m].width > 1 /\ D = [F EXCEPT ![m].width = @ - 1]
  BY <1>1 DEF Shortened
<1>3. D = [i \in 1..m |-> D[i]]
  <2>1. PICK e : e = [F[m] EXCEPT !.width = @ - 1]
    OBVIOUS
  <2>2. D = [F EXCEPT ![m] = e]
    BY <1>2, <2>1
  <2>3. DOMAIN F = 1..m
    BY <1>1
  <2>4. QED BY <2>2, <2>3
<1>4. Len(D) = m /\ \E T : D \in Seq(T)
  BY <1>3, IsSeq
<1>5. \A i \in 1..m : D[i] = IF i = m THEN [F[m] EXCEPT !.width = @ - 1] ELSE F[i]
  BY <1>1, <1>2
<1>6. CASE F[3].value = 1 /\ m = 4 /\ F[4].width = 8
  <2>1. D[3] = F[3] /\ D[4] = [F[4] EXCEPT !.width = @ - 1]
    BY <1>5, <1>6
  <2>2. D[4].width # 8
    BY <1>6, <2>1
  <2>3. QED BY <1>4, <1>6, <2>1, <2>2, RefusedIf
<1>7. CASE F[3].value = 2 /\ m = 4 /\ F[4].width = 4
  <2>1. D[3] = F[3] /\ D[4] = [F[4] EXCEPT !.width = @ - 1]
    BY <1>5, <1>7
  <2>2. D[4].width # 4
    BY <1>7, <2>1
  <2>3. QED BY <1>4, <1>7, <2>1, <2>2, RefusedIf
<1>8. CASE F[3].value = 2 /\ m = 5 /\ F[4].value # 0 /\ F[4].value \in Nat /\ F[5].width = F[4].value
  <2>1. D[3] = F[3] /\ D[4] = F[4] /\ D[5] = [F[5] EXCEPT !.width = @ - 1]
    BY <1>5, <1>8
  <2>2. D[5].width # F[4].value
    BY <1>8, <2>1
  <2>3. QED BY <1>4, <1>8, <2>1, <2>2, RefusedIf
<1>9. QED BY <1>1, <1>4, <1>6, <1>7, <1>8, WrittenIs

LEMMA RelabelledIsRefused ==
  ASSUME NEW S, NEW F \in Seq(S), IsWritten(F), NEW D \in Relabelled(F)
  PROVE  (\E T : D \in Seq(T)) /\ Refused(D)
<1>1. PICK m \in Nat : m = Len(F)
  OBVIOUS
<1>2. m >= 4
  BY <1>1, WrittenIs
<1>3. \/ D = [F EXCEPT ![1].value = "XX"]
      \/ D = [F EXCEPT ![2].value = 3]
      \/ D = [F EXCEPT ![3].value = 129]
  BY DEF Relabelled, Tag
<1>4. D = [i \in 1..m |-> D[i]]
  BY <1>1, <1>3
<1>5. Len(D) = m /\ \E T : D \in Seq(T)
  BY <1>4, IsSeq
<1>6. F[1].value = "GW" /\ F[2].value = 2 /\ HasHeader(F)
  BY WrittenIs DEF HasHeader
<1>7. CASE D = [F EXCEPT ![1].value = "XX"]
  <2>1. D[1] = [F[1] EXCEPT !.value = "XX"]
    BY <1>1, <1>2, <1>7
  <2>2. D[1].value # "GW"
    BY <2>1
  <2>3. QED BY <1>5, <2>2, RefusedIf DEF HasHeader
<1>8. CASE D = [F EXCEPT ![2].value = 3]
  <2>1. D[2] = [F[2] EXCEPT !.value = 3]
    BY <1>1, <1>2, <1>8
  <2>2. D[2].value # 2
    BY <2>1
  <2>3. QED BY <1>5, <2>2, RefusedIf DEF HasHeader
<1>9. CASE D = [F EXCEPT ![3].value = 129]
  <2>1. D[3] = [F[3] EXCEPT !.value = 129]
    BY <1>1, <1>2, <1>9
  <2>2. D[3].value \notin {1, 2}
    BY <2>1
  <2>3. QED BY <1>5, <2>2, RefusedIf
<1>10. QED BY <1>3, <1>7, <1>8, <1>9

LEMMA LongIsRefused ==
  ASSUME NEW S, NEW F \in Seq(S), IsWritten(F), NEW D, D = Append(F, Field(1, 0))
  PROVE  (\E T : D \in Seq(T)) /\ Refused(D)
<1>1. PICK m \in Nat : m = Len(F)
  OBVIOUS
<1>2. PICK T : T = S \cup {Field(1, 0)}
  OBVIOUS
<1>3. F \in Seq(T) /\ Field(1, 0) \in T
  BY <1>2
<1>4. D \in Seq(T) /\ Len(D) = m + 1 /\ \A i \in 1..m : D[i] = F[i]
  BY <1>1, <1>3
<1>5. CASE F[3].value = 1 /\ m = 4
  <2>1. D[3].value = 1 /\ m + 1 # 4
    BY <1>4, <1>5
  <2>2. PICK l \in Nat : l = Len(D) /\ l = m + 1
    BY <1>4
  <2>3. Refused(D)
    BY <2>1, <2>2, RefusedIf
  <2>4. QED BY <1>4, <2>3
<1>6. CASE F[3].value = 2 /\ F[4].value = 0 /\ m = 4
  <2>1. D[3].value = 2 /\ D[4].value = 0 /\ m + 1 # 4
    BY <1>4, <1>6
  <2>2. PICK l \in Nat : l = Len(D) /\ l = m + 1
    BY <1>4
  <2>3. Refused(D)
    BY <2>1, <2>2, RefusedIf
  <2>4. QED BY <1>4, <2>3
<1>7. CASE F[3].value = 2 /\ F[4].value # 0 /\ m = 5
  <2>1. D[3].value = 2 /\ D[4].value # 0 /\ m + 1 # 5
    BY <1>4, <1>7
  <2>2. PICK l \in Nat : l = Len(D) /\ l = m + 1
    BY <1>4
  <2>3. Refused(D)
    BY <2>1, <2>2, RefusedIf
  <2>4. QED BY <1>4, <2>3
<1>8. QED BY <1>1, <1>4, <1>5, <1>6, <1>7, WrittenIs

LEMMA DamagedIsRead ==
  ASSUME NEW S, NEW F \in Seq(S), IsWritten(F), NEW D \in Damaged(F)
  PROVE  Reads(D, NoMessage)
<1>1. (\E T : D \in Seq(T)) /\ Refused(D)
  BY CutIsRefused, ShortIsRefused, RelabelledIsRefused, LongIsRefused DEF Damaged
<1>2. QED BY <1>1, RefusedIsRead

-------------------------------------------------------------------------------
(* Codec: the frames clients write *)

LEMMA JoinIs ==
  ASSUME NEW S, NEW s \in Seq(S), NEW t \in Seq(S)
  PROVE  /\ s \o t \in Seq(S) /\ Len(s \o t) = Len(s) + Len(t)
         /\ \A i \in 1..Len(s) : (s \o t)[i] = s[i]
         /\ \A i \in 1..Len(t) : (s \o t)[Len(s) + i] = t[i]
OBVIOUS

Continues(F, a, b, c, rest) ==
  /\ \E S : F \in Seq(S)
  /\ Len(F) = 3 + Len(rest)
  /\ F[1] = a /\ F[2] = b /\ F[3] = c
  /\ \A i \in 1..Len(rest) : F[3 + i] = rest[i]

LEMMA Headed ==
  ASSUME NEW a, NEW b, NEW c, NEW S, NEW rest \in Seq(S)
  PROVE  Continues(<<a, b, c>> \o rest, a, b, c, rest)
<1>1. ASSUME NEW T, NEW s \in Seq(T), NEW r \in Seq(T), Len(s) = 3, s[1] = a, s[2] = b, s[3] = c
      PROVE  Continues(s \o r, a, b, c, r)
  <2>1. /\ s \o r \in Seq(T) /\ Len(s \o r) = Len(s) + Len(r)
        /\ \A i \in 1..Len(s) : (s \o r)[i] = s[i]
        /\ \A i \in 1..Len(r) : (s \o r)[Len(s) + i] = r[i]
    BY JoinIs
  <2>2. PICK F : F = s \o r
    OBVIOUS
  <2>3. F[1] = a /\ F[2] = b /\ F[3] = c
    BY <1>1, <2>1, <2>2
  <2>4. Len(F) = 3 + Len(r) /\ \A i \in 1..Len(r) : F[3 + i] = r[i]
    BY <1>1, <2>1, <2>2
  <2>5. QED BY <2>1, <2>2, <2>3, <2>4 DEF Continues
<1>2. PICK T : T = {a, b, c} \cup S
  OBVIOUS
<1>3. PICK s : s = <<a, b, c>>
  OBVIOUS
<1>4. s \in Seq(T) /\ Len(s) = 3 /\ s[1] = a /\ s[2] = b /\ s[3] = c
  BY <1>2, <1>3
<1>5. rest \in Seq(T)
  BY <1>2
<1>6. Continues(s \o rest, a, b, c, rest)
  BY <1>1, <1>4, <1>5
<1>7. QED BY <1>3, <1>6

LEMMA PayloadIs ==
  ASSUME NEW S, \A field \in S : field.width \in Nat \ {0}, NEW p \in Seq(S)
  PROVE  IsPayload(p)
<1>1. PICK n \in Nat : n = Len(p) /\ p \in [1..n -> S]
  OBVIOUS
<1>2. p \in [1..n -> Range(p)]
  BY <1>1 DEF Range
<1>3. QED BY <1>1, <1>2 DEF IsPayload, IsSequence

LEMMA InputPayloadIs ==
  ASSUME NEW position, NEW yaw, NEW fire
  PROVE  IsPayload(InputPayload(position, yaw, fire)) /\ InputPayload(position, yaw, fire) # <<>>
<1>1. PICK S : S = {Field(4, "GWCI"), Field(1, 2)} \cup {Field(4, position[i]) : i \in 1..3}
                     \cup {Field(4, yaw), Field(1, 0), Field(1, 1)}
  OBVIOUS
<1>2. PICK a, b, c : /\ a = <<Field(4, "GWCI"), Field(1, 2)>>
                     /\ b = PositionFields(position)
                     /\ c = <<Field(4, yaw), Field(1, IF fire THEN 1 ELSE 0)>>
  OBVIOUS
<1>3. a \in Seq(S) /\ Len(a) = 2
  BY <1>1, <1>2
<1>4. b \in Seq(S)
  <2>1. b \in [1..3 -> S]
    BY <1>1, <1>2 DEF PositionFields
  <2>2. QED BY <2>1
<1>5. c \in Seq(S)
  <2>1. Field(4, yaw) \in S /\ Field(1, IF fire THEN 1 ELSE 0) \in S
    BY <1>1
  <2>2. QED BY <1>2, <2>1
<1>6. a \o b \in Seq(S) /\ Len(a \o b) >= 2
  <2>1. PICK n \in Nat : n = Len(b)
    BY <1>4
  <2>2. a \o b \in Seq(S) /\ Len(a \o b) = Len(a) + Len(b)
    BY <1>3, <1>4, JoinIs
  <2>3. QED BY <1>3, <2>1, <2>2
<1>7. (a \o b) \o c \in Seq(S) /\ Len((a \o b) \o c) >= 2
  <2>1. PICK n \in Nat, m \in Nat : n = Len(c) /\ m = Len(a \o b)
    BY <1>5, <1>6
  <2>2. (a \o b) \o c \in Seq(S) /\ Len((a \o b) \o c) = Len(a \o b) + Len(c)
    BY <1>5, <1>6, JoinIs
  <2>3. QED BY <1>6, <2>1, <2>2
<1>8. InputPayload(position, yaw, fire) = (a \o b) \o c
  BY <1>2 DEF InputPayload
<1>9. \A field \in S : field.width \in Nat \ {0}
  BY <1>1 DEF Field
<1>10. PICK p : p = InputPayload(position, yaw, fire)
  OBVIOUS
<1>11. p \in Seq(S) /\ Len(p) >= 2
  BY <1>7, <1>8, <1>10
<1>12. p # <<>>
  BY <1>11
<1>13. QED BY <1>9, <1>10, <1>11, <1>12, PayloadIs

LEMMA AckFrames ==
  ASSUME NEW n
  PROVE  /\ GodotAck(n) = Encode(AckSnapshot(n))
         /\ (\E S : GodotAck(n) \in Seq(S)) /\ IsAck(GodotAck(n), n)
<1>1. PICK F : F = <<Field(2, "GW"), Field(1, 2), Field(1, 1)>> \o <<Field(8, n)>>
  OBVIOUS
<1>2. GodotAck(n) = F
  BY <1>1 DEF GodotAck, GodotHeader
<1>3. Encode(AckSnapshot(n)) = F
  BY <1>1 DEF Encode, AckSnapshot, Header, Tag
<1>4. <<Field(8, n)>> \in Seq({Field(8, n)}) /\ Len(<<Field(8, n)>>) = 1 /\ <<Field(8, n)>>[1] = Field(8, n)
  OBVIOUS
<1>5. PICK r : r = <<Field(8, n)>>
  OBVIOUS
<1>6. PICK T : /\ F \in Seq(T) /\ Len(F) = 3 + Len(r)
               /\ F[1] = Field(2, "GW") /\ F[2] = Field(1, 2) /\ F[3] = Field(1, 1)
               /\ \A i \in 1..Len(r) : F[3 + i] = r[i]
  <2>1. PICK a, b, c : a = Field(2, "GW") /\ b = Field(1, 2) /\ c = Field(1, 1)
    OBVIOUS
  <2>2. F = <<a, b, c>> \o r
    BY <1>1, <1>5, <2>1
  <2>3. PICK R : r \in Seq(R)
    BY <1>4, <1>5
  <2>4. Continues(F, a, b, c, r)
    BY <2>2, <2>3, Headed
  <2>5. QED BY <2>1, <2>4 DEF Continues
<1>7. Len(F) = 4 /\ F[3 + 1] = Field(8, n) /\ 3 + 1 = 4
  BY <1>4, <1>5, <1>6
<1>8. IsAck(F, n)
  <2>1. F[4] = Field(8, n) /\ Len(F) = 4 /\ Len(F) >= 4
    BY <1>7
  <2>2. QED BY <1>6, <2>1 DEF IsAck, IsHeaded
<1>9. QED BY <1>2, <1>3, <1>6, <1>8

\* what BytesFields writes, after the header
LEMMA InputFrames ==
  ASSUME NEW p, NEW F,
         F = <<Field(2, "GW"), Field(1, 2), Field(1, 2)>> \o
               (IF p = <<>> THEN <<Field(4, Bytes(p))>> ELSE <<Field(4, Bytes(p)), Field(Bytes(p), p)>>)
  PROVE  (\E S : F \in Seq(S)) /\ IsInput(F, p)
<1>1. PICK r : r = IF p = <<>> THEN <<Field(4, Bytes(p))>> ELSE <<Field(4, Bytes(p)), Field(Bytes(p), p)>>
  OBVIOUS
<1>2. PICK a, b : a = Field(4, Bytes(p)) /\ b = Field(Bytes(p), p)
  OBVIOUS
<1>3. /\ r \in Seq({a, b})
      /\ IF p = <<>> THEN Len(r) = 1 /\ r[1] = a ELSE Len(r) = 2 /\ r[1] = a /\ r[2] = b
  <2>1. CASE p = <<>>
    BY <1>1, <1>2, <2>1
  <2>2. CASE p # <<>>
    <3>1. r = <<a, b>>
      BY <1>1, <1>2, <2>2
    <3>2. QED BY <2>2, <3>1
  <2>3. QED BY <2>1, <2>2
<1>4. PICK T : /\ F \in Seq(T) /\ Len(F) = 3 + Len(r)
               /\ F[1] = Field(2, "GW") /\ F[2] = Field(1, 2) /\ F[3] = Field(1, 2)
               /\ \A i \in 1..Len(r) : F[3 + i] = r[i]
  <2>1. PICK x, y : x = Field(2, "GW") /\ y = Field(1, 2)
    OBVIOUS
  <2>2. F = <<x, y, y>> \o r
    BY <1>1, <2>1
  <2>3. PICK R : r \in Seq(R)
    BY <1>3
  <2>4. Continues(F, x, y, y, r)
    BY <2>2, <2>3, Headed
  <2>5. QED BY <2>1, <2>4 DEF Continues
<1>5. /\ F[4] = a /\ Len(F) >= 4
      /\ IF p = <<>> THEN Len(F) = 4 ELSE Len(F) = 5 /\ F[5] = b
  <2>1. 3 + 1 = 4 /\ 3 + 2 = 5
    OBVIOUS
  <2>2. 1 \in 1..Len(r) /\ (p # <<>> => 2 \in 1..Len(r))
    BY <1>3
  <2>3. F[3 + 1] = r[1] /\ (p # <<>> => F[3 + 2] = r[2])
    BY <1>4, <2>2
  <2>4. QED BY <1>3, <1>4, <2>1, <2>3
<1>6. QED BY <1>2, <1>4, <1>5 DEF IsInput, IsHeaded

LEMMA GodotInputIs ==
  ASSUME NEW position, NEW yaw, NEW fire, NEW p, p = InputPayload(position, yaw, fire)
  PROVE  (\E S : GodotInput(position, yaw, fire) \in Seq(S)) /\ IsInput(GodotInput(position, yaw, fire), p)
<1>1. p # <<>>
  BY InputPayloadIs
<1>2. GodotInput(position, yaw, fire) =
        <<Field(2, "GW"), Field(1, 2), Field(1, 2)>> \o <<Field(4, Bytes(p)), Field(Bytes(p), p)>>
  BY DEF GodotInput, GodotHeader
<1>3. QED BY <1>1, <1>2, InputFrames

LEMMA EncodedInputIs ==
  ASSUME NEW p
  PROVE  (\E S : Encode(Input(p)) \in Seq(S)) /\ IsInput(Encode(Input(p)), p)
<1>1. Encode(Input(p)) = <<Field(2, "GW"), Field(1, 2), Field(1, 2)>> \o BytesFields(p)
  BY DEF Encode, Input, Header, Tag
<1>2. PICK a, b : a = Field(4, Bytes(p)) /\ b = Field(Bytes(p), p)
  OBVIOUS
<1>3. BytesFields(p) = <<a>> \o (IF p = <<>> THEN <<>> ELSE <<b>>)
  BY <1>2 DEF BytesFields
<1>4. <<a>> \o <<>> = <<a>> /\ <<a>> \o <<b>> = <<a, b>>
  <2>1. PICK s, t : s = <<a>> /\ t = <<b>>
    OBVIOUS
  <2>2. s \in Seq({a, b}) /\ t \in Seq({a, b}) /\ Len(s) = 1 /\ Len(t) = 1 /\ s[1] = a /\ t[1] = b
    BY <2>1
  <2>3. s \o <<>> = s
    BY <2>2
  <2>4. s \o t \in Seq({a, b}) /\ Len(s \o t) = 2 /\ (s \o t)[1] = a /\ (s \o t)[2] = b
    <3>1. 1 \in 1..Len(s) /\ 1 \in 1..Len(t) /\ Len(s) + 1 = 2
      BY <2>2
    <3>2. QED BY <2>2, <3>1, JoinIs
  <2>5. s \o t = <<a, b>>
    <3>1. PICK u, w : u = s \o t /\ w = <<a, b>>
      OBVIOUS
    <3>2. w \in Seq({a, b}) /\ Len(w) = 2 /\ w[1] = a /\ w[2] = b
      BY <3>1
    <3>3. u \in Seq({a, b}) /\ Len(u) = 2 /\ \A i \in 1..2 : u[i] = w[i]
      BY <2>4, <3>1, <3>2
    <3>4. u = w
      BY <3>2, <3>3
    <3>5. QED BY <3>1, <3>4
  <2>6. QED BY <2>1, <2>3, <2>5
<1>5. BytesFields(p) = IF p = <<>> THEN <<a>> ELSE <<a, b>>
  BY <1>3, <1>4
<1>6. QED BY <1>1, <1>2, <1>5, InputFrames

-------------------------------------------------------------------------------
(* CodecTransport: what is held *)

WrittenFrames ==
  GodotFrames \cup {Written(Encode(AckSnapshot(n)), AckSnapshot(n)) : n \in Sequences}
              \cup {Written(Encode(Input(payload)), Input(payload)) : payload \in Payloads}

DamagedFrames ==
  UNION {{[frame |-> frame, message |-> NoMessage] : frame \in Damaged(written.frame)} :
           written \in GodotFrames}

HeldFrames ==
  {[client |-> c, bytes |-> written.frame, message |-> written.message] :
     c \in Peer, written \in WrittenFrames \cup DamagedFrames}

LEMMA AckWritten ==
  ASSUME NEW n, NEW F, F = GodotAck(n), NEW written, written = Written(F, AckSnapshot(n))
  PROVE  /\ (\E S : F \in Seq(S)) /\ IsWritten(F)
         /\ written.frame = F /\ Reads(F, written.message)
<1>1. PICK S : F \in Seq(S) /\ IsAck(F, n)
  BY AckFrames
<1>2. written.frame = F /\ written.message = AckSnapshot(n)
  BY DEF Written, Readable, AckSnapshot
<1>3. QED BY <1>1, <1>2, AckIsRead DEF IsWritten

LEMMA InputWritten ==
  ASSUME NEW p, IsPayload(p), NEW S, NEW F \in Seq(S), IsInput(F, p),
         NEW written, written = Written(F, Input(p))
  PROVE  IsWritten(F) /\ written.frame = F /\ Reads(F, written.message)
<1>1. written.frame = F
  BY DEF Written
<1>2. QED BY <1>1, InputIsRead DEF IsWritten

LEMMA GodotFrameIs ==
  ASSUME NEW written \in GodotFrames
  PROVE  /\ (\E S : written.frame \in Seq(S)) /\ IsWritten(written.frame)
         /\ Reads(written.frame, written.message)
<1>1. ASSUME NEW n, written = Written(GodotAck(n), AckSnapshot(n))
      PROVE  /\ (\E S : written.frame \in Seq(S)) /\ IsWritten(written.frame)
             /\ Reads(written.frame, written.message)
  BY <1>1, AckWritten
<1>2. ASSUME NEW i \in GodotInputs,
             written = Written(GodotInput(i.position, i.yaw, i.fire),
                               Input(InputPayload(i.position, i.yaw, i.fire)))
      PROVE  /\ (\E S : written.frame \in Seq(S)) /\ IsWritten(written.frame)
             /\ Reads(written.frame, written.message)
  <2>1. PICK p, F : p = InputPayload(i.position, i.yaw, i.fire) /\ F = GodotInput(i.position, i.yaw, i.fire)
    OBVIOUS
  <2>2. (\E S : F \in Seq(S)) /\ IsInput(F, p) /\ IsPayload(p)
    BY <2>1, GodotInputIs, InputPayloadIs
  <2>3. written = Written(F, Input(p))
    BY <1>2, <2>1
  <2>4. QED BY <2>2, <2>3, InputWritten
<1>3. QED BY <1>1, <1>2 DEF GodotFrames

LEMMA WrittenFrameIs ==
  ASSUME NEW written \in WrittenFrames
  PROVE  Reads(written.frame, written.message)
<1>1. ASSUME NEW n, written = Written(Encode(AckSnapshot(n)), AckSnapshot(n))
      PROVE  Reads(written.frame, written.message)
  <2>1. Encode(AckSnapshot(n)) = GodotAck(n)
    BY AckFrames
  <2>2. QED BY <1>1, <2>1, AckWritten
<1>2. ASSUME NEW p \in Payloads, written = Written(Encode(Input(p)), Input(p))
      PROVE  Reads(written.frame, written.message)
  <2>1. IsPayload(p)
    BY MessagesAssumption
  <2>2. PICK F : F = Encode(Input(p))
    OBVIOUS
  <2>3. (\E S : F \in Seq(S)) /\ IsInput(F, p)
    BY <2>2, EncodedInputIs
  <2>4. written = Written(F, Input(p))
    BY <1>2, <2>2
  <2>5. QED BY <2>1, <2>3, <2>4, InputWritten
<1>3. CASE written \in GodotFrames
  BY <1>3, GodotFrameIs
<1>4. QED BY <1>1, <1>2, <1>3 DEF WrittenFrames

\* Every frame held reads as the message it was written for, and as an error if
\* it is damaged or too long.
LEMMA HeldReads ==
  ASSUME NEW r \in HeldFrames
  PROVE  r.client \in Peer /\ Reads(r.bytes, r.message)
<1>1. PICK c \in Peer, written \in WrittenFrames \cup DamagedFrames :
        r = [client |-> c, bytes |-> written.frame, message |-> written.message]
  BY DEF HeldFrames
<1>2. Reads(written.frame, written.message)
  <2>1. CASE written \in WrittenFrames
    BY <2>1, WrittenFrameIs
  <2>2. CASE written \in DamagedFrames
    <3>1. PICK whole \in GodotFrames :
            \E frame \in Damaged(whole.frame) : written = [frame |-> frame, message |-> NoMessage]
      BY <2>2 DEF DamagedFrames
    <3>2. PICK frame \in Damaged(whole.frame) : written = [frame |-> frame, message |-> NoMessage]
      BY <3>1
    <3>3. (\E S : whole.frame \in Seq(S)) /\ IsWritten(whole.frame)
      BY GodotFrameIs
    <3>4. Reads(frame, NoMessage)
      BY <3>3, DamagedIsRead
    <3>5. QED BY <3>2, <3>4
  <2>3. QED BY <2>1, <2>2
<1>3. QED BY <1>1, <1>2

-------------------------------------------------------------------------------
(* CodecTransport: draining *)

ReadMessages == {[client |-> r.client, message |-> r.message] : r \in HeldFrames}

ReportedErrors ==
  {EncodeServerError(c, EncodeError(m)) : c \in Peer, m \in ServerMessages}
    \cup {DecodeClientError(r.client, DecodeClientMessage(r.bytes).error) : r \in HeldFrames}

Drains == [messages : Seq(ReadMessages), errors : Seq(ReportedErrors)]

\* the folds, as operators of what is folded
DrainOf(held, seq) == FoldLeft(Drained, [messages |-> <<>>, errors |-> held], seq)
IntactOf(seq) == FoldLeft(Intact, <<>>, seq)

DrainedEquation(f, seq, base) ==
  f = [s \in SUBSET DOMAIN seq |-> IF s = {} THEN base ELSE Drained(f[s \ {Max(s)}], seq[Max(s)])]

IntactEquation(f, seq) ==
  f = [s \in SUBSET DOMAIN seq |-> IF s = {} THEN <<>> ELSE Intact(f[s \ {Max(s)}], seq[Max(s)])]

\* One turn takes up the message of an intact frame or an error.
LEMMA DrainedStep ==
  ASSUME NEW out \in Drains, NEW r \in HeldFrames
  PROVE  /\ Drained(out, r) \in Drains
         /\ IF r.message = NoMessage
              THEN /\ Drained(out, r).messages = out.messages
                   /\ Len(Drained(out, r).errors) = Len(out.errors) + 1
              ELSE /\ Drained(out, r).messages = Append(out.messages, [client |-> r.client, message |-> r.message])
                   /\ Drained(out, r).errors = out.errors
<1>1. PICK decoded : decoded = DecodeClientMessage(r.bytes)
  OBVIOUS
<1>2. IF r.message = NoMessage THEN decoded.error # NoError
      ELSE decoded.error = NoError /\ decoded.message = r.message
  <2>1. Reads(r.bytes, r.message)
    BY HeldReads
  <2>2. QED BY <1>1, <2>1 DEF Reads
<1>3. PICK message, error : /\ message = [client |-> r.client, message |-> r.message]
                            /\ error = DecodeClientError(r.client, decoded.error)
  OBVIOUS
<1>4. message \in ReadMessages /\ error \in ReportedErrors
  BY <1>1, <1>3 DEF ReadMessages, ReportedErrors
<1>5. PICK messages \in Seq(ReadMessages), left \in Seq(ReportedErrors) :
        out = [messages |-> messages, errors |-> left]
  BY DEF Drains
<1>6. CASE r.message # NoMessage
  <2>1. Drained(out, r) = [out EXCEPT !.messages = Append(@, message)]
    BY <1>1, <1>2, <1>3, <1>6 DEF Drained
  <2>2. Drained(out, r) = [messages |-> Append(messages, message), errors |-> left]
    BY <1>5, <2>1
  <2>3. Append(messages, message) \in Seq(ReadMessages)
    BY <1>4
  <2>4. Drained(out, r) \in Drains
    BY <2>2, <2>3 DEF Drains
  <2>5. /\ Drained(out, r).messages = Append(messages, message) /\ out.messages = messages
        /\ Drained(out, r).errors = out.errors
    BY <1>5, <2>2
  <2>6. QED BY ONLY <1>3, <1>6, <2>4, <2>5, Zenon
<1>7. CASE r.message = NoMessage
  <2>1. Drained(out, r) = [out EXCEPT !.errors = Append(@, error)]
    BY <1>1, <1>2, <1>3, <1>7 DEF Drained
  <2>2. Drained(out, r) = [messages |-> messages, errors |-> Append(left, error)]
    BY <1>5, <2>1
  <2>3. Append(left, error) \in Seq(ReportedErrors) /\ Len(Append(left, error)) = Len(left) + 1
    BY <1>4
  <2>4. Drained(out, r) \in Drains
    BY <2>2, <2>3 DEF Drains
  <2>5. /\ Drained(out, r).messages = messages /\ out.messages = messages
        /\ Drained(out, r).errors = Append(left, error) /\ out.errors = left
    BY <1>5, <2>2
  <2>6. Len(Drained(out, r).errors) = Len(out.errors) + 1
    <3>1. Len(Drained(out, r).errors) = Len(Append(left, error)) /\ Len(out.errors) = Len(left)
      BY <2>5
    <3>2. QED BY <2>3, <3>1
  <2>7. Drained(out, r).messages = out.messages
    BY <2>5
  <2>8. QED BY ONLY <1>7, <2>4, <2>6, <2>7, Zenon
<1>8. QED BY <1>6, <1>7

LEMMA IntactStep ==
  ASSUME NEW messages \in Seq(ReadMessages), NEW r \in HeldFrames
  PROVE  Intact(messages, r) \in Seq(ReadMessages)
<1>1. PICK message : message = [client |-> r.client, message |-> r.message]
  OBVIOUS
<1>2. message \in ReadMessages
  BY <1>1 DEF ReadMessages
<1>3. Append(messages, message) \in Seq(ReadMessages)
  BY <1>2
<1>4. QED BY <1>1, <1>3 DEF Intact

LEMMA DrainedIsLoop ==
  ASSUME NEW n \in Nat, NEW seq \in [1..n -> HeldFrames], NEW held \in Seq(ReportedErrors)
  PROVE  \E p : /\ p[0] = [messages |-> <<>>, errors |-> held]
                /\ \A i \in 1..n : p[i] = Drained(p[i - 1], seq[i])
                /\ DrainOf(held, seq) = p[n]
<1> DEFINE base == [messages |-> <<>>, errors |-> held]
<1>0. base \in Drains
  BY DEF Drains
<1> DEFINE step == [r \in Drains \X HeldFrames |-> Drained(r[1], r[2])]
<1>1. step \in [Drains \X HeldFrames -> Drains]
  <2>1. \A out \in Drains, r \in HeldFrames : Drained(out, r) \in Drains
    BY DrainedStep
  <2>2. QED BY <2>1
<1>2. \A out \in Drains, r \in HeldFrames : step[<<out, r>>] = Drained(out, r)
  OBVIOUS
<1> HIDE DEF step
<1>3. PICK f : IsLoop(f, seq, base, step, Drains, HeldFrames)
  <2> HIDE DEF base
  <2> QED BY <1>0, <1>1, LoopExists
<1>4. DrainedEquation(f, seq, base)
  <2>1. \A s \in SUBSET DOMAIN seq :
          s # {} => step[<<f[s \ {Max(s)}], seq[Max(s)]>>] = Drained(f[s \ {Max(s)}], seq[Max(s)])
    BY <1>2, <1>3 DEF IsLoop
  <2>2. QED BY <1>3, <2>1 DEF DrainedEquation, IsLoop
<1> DEFINE h == CHOOSE k : DrainedEquation(k, seq, base)
<1>5. DrainedEquation(h, seq, base)
  BY <1>4
<1>6. DrainOf(held, seq) = h[DOMAIN seq]
  BY DEF DrainOf, FoldLeft, MapThenFoldSet, DrainedEquation
<1> HIDE DEF h, base
<1> DEFINE p == [i \in 0..n |-> h[1..i]]
<1>7. p[0] = base
  BY <1>5, FirstTurns DEF DrainedEquation
<1>8. ASSUME NEW i \in 1..n PROVE p[i] = Drained(p[i - 1], seq[i])
  <2>1. PICK s : s = 1..i
    OBVIOUS
  <2>2. s \in SUBSET DOMAIN seq /\ s # {} /\ Max(s) = i /\ s \ {i} = 1..(i - 1)
    BY <2>1, FirstTurns
  <2>3. h[s] = Drained(h[s \ {i}], seq[i])
    BY <1>5, <2>2 DEF DrainedEquation
  <2>4. i \in 0..n /\ i - 1 \in 0..n
    OBVIOUS
  <2>5. QED BY <2>1, <2>2, <2>3, <2>4
<1>9. p[n] = DrainOf(held, seq)
  BY <1>6
<1>10. QED BY <1>7, <1>8, <1>9 DEF base

LEMMA IntactIsLoop ==
  ASSUME NEW n \in Nat, NEW seq \in [1..n -> HeldFrames]
  PROVE  \E p : /\ p[0] = <<>> /\ \A i \in 1..n : p[i] = Intact(p[i - 1], seq[i])
                /\ IntactOf(seq) = p[n]
<1> DEFINE A == Seq(ReadMessages)
           step == [r \in A \X HeldFrames |-> Intact(r[1], r[2])]
<1>1. step \in [A \X HeldFrames -> A] /\ <<>> \in A
  <2>1. \A messages \in A, r \in HeldFrames : Intact(messages, r) \in A
    BY IntactStep
  <2>2. QED BY <2>1
<1>2. \A messages \in A, r \in HeldFrames : step[<<messages, r>>] = Intact(messages, r)
  OBVIOUS
<1> HIDE DEF A, step
<1>3. PICK f : IsLoop(f, seq, <<>>, step, A, HeldFrames)
  BY <1>1, LoopExists
<1>4. IntactEquation(f, seq)
  <2>1. \A s \in SUBSET DOMAIN seq :
          s # {} => step[<<f[s \ {Max(s)}], seq[Max(s)]>>] = Intact(f[s \ {Max(s)}], seq[Max(s)])
    BY <1>2, <1>3 DEF IsLoop
  <2>2. QED BY <1>3, <2>1 DEF IntactEquation, IsLoop
<1> DEFINE h == CHOOSE k : IntactEquation(k, seq)
<1>5. IntactEquation(h, seq)
  BY <1>4
<1>6. IntactOf(seq) = h[DOMAIN seq]
  BY DEF IntactOf, FoldLeft, MapThenFoldSet, IntactEquation
<1> HIDE DEF h
<1> DEFINE p == [i \in 0..n |-> h[1..i]]
<1>7. p[0] = <<>>
  BY <1>5, FirstTurns DEF IntactEquation
<1>8. ASSUME NEW i \in 1..n PROVE p[i] = Intact(p[i - 1], seq[i])
  <2>1. PICK s : s = 1..i
    OBVIOUS
  <2>2. s \in SUBSET DOMAIN seq /\ s # {} /\ Max(s) = i /\ s \ {i} = 1..(i - 1)
    BY <2>1, FirstTurns
  <2>3. h[s] = Intact(h[s \ {i}], seq[i])
    BY <1>5, <2>2 DEF IntactEquation
  <2>4. i \in 0..n /\ i - 1 \in 0..n
    OBVIOUS
  <2>5. QED BY <2>1, <2>2, <2>3, <2>4
<1>9. p[n] = IntactOf(seq)
  BY <1>6
<1>10. QED BY <1>7, <1>8, <1>9

\* What the intact frames carry comes out, and an error for every other one.
LEMMA DrainIs ==
  ASSUME NEW n \in Nat, NEW seq \in [1..n -> HeldFrames], NEW held \in Seq(ReportedErrors)
  PROVE  /\ DrainOf(held, seq) \in Drains
         /\ DrainOf(held, seq).messages = IntactOf(seq)
         /\ Len(DrainOf(held, seq).errors) + Len(DrainOf(held, seq).messages) = Len(held) + n
<1>1. PICK base : base = [messages |-> <<>>, errors |-> held]
  OBVIOUS
<1>2. base \in Drains /\ base.messages = <<>> /\ base.errors = held
  BY <1>1 DEF Drains
<1>3. PICK p : /\ p[0] = [messages |-> <<>>, errors |-> held]
               /\ \A i \in 1..n : p[i] = Drained(p[i - 1], seq[i])
               /\ DrainOf(held, seq) = p[n]
  BY ZenonT(60), DrainedIsLoop
<1>4. PICK q : /\ q[0] = <<>> /\ \A i \in 1..n : q[i] = Intact(q[i - 1], seq[i])
               /\ IntactOf(seq) = q[n]
  BY IntactIsLoop
<1> DEFINE Good(i) == /\ p[i] \in Drains /\ p[i].messages = q[i]
                      /\ Len(p[i].errors) + Len(p[i].messages) = Len(held) + i
           C == {i \in 0..n : ~ Good(i)}
<1>5. 0 \notin C
  <2>1. Len(<<>>) = 0 /\ Len(held) \in Nat
    OBVIOUS
  <2>2. QED BY <1>1, <1>2, <1>3, <1>4, <2>1
<1>6. ASSUME NEW i \in 1..n, i \in C PROVE i - 1 \in C
  <2>1. i - 1 \in 0..n
    OBVIOUS
  <2>2. SUFFICES ASSUME Good(i - 1) PROVE Good(i)
    BY <1>6, <2>1
  <2>3. PICK before, r : before = p[i - 1] /\ r = seq[i]
    OBVIOUS
  <2>4. /\ before \in Drains /\ r \in HeldFrames /\ before.messages = q[i - 1]
        /\ Len(before.errors) + Len(before.messages) = Len(held) + (i - 1)
    BY <2>2, <2>3
  <2>5. p[i] = Drained(before, r) /\ q[i] = Intact(before.messages, r)
    BY <1>3, <1>4, <2>3, <2>4
  <2> HIDE DEF C, Good
  <2>6. PICK after : after = Drained(before, r)
    OBVIOUS
  <2>7. /\ after \in Drains
        /\ IF r.message = NoMessage
             THEN after.messages = before.messages /\ Len(after.errors) = Len(before.errors) + 1
             ELSE /\ after.messages = Append(before.messages, [client |-> r.client, message |-> r.message])
                  /\ after.errors = before.errors
    BY <2>4, <2>6, DrainedStep
  <2>8. after.messages = q[i]
    BY <2>5, <2>7 DEF Intact
  <2>9. Len(after.errors) + Len(after.messages) = Len(held) + i
    <3>0. PICK b, l, h : b = Len(before.errors) /\ l = Len(before.messages) /\ h = Len(held)
      OBVIOUS
    <3>1. b \in Nat /\ l \in Nat /\ h \in Nat /\ before.messages \in Seq(ReadMessages)
      BY <2>4, <3>0 DEF Drains
    <3>1a. b + l = h + (i - 1)
      BY <2>4, <3>0, Zenon
    <3>1b. (b + 1) + l = h + i /\ b + (l + 1) = h + i
      BY <3>1, <3>1a
    <3>2. CASE r.message = NoMessage
      <4>1. Len(after.errors) = b + 1 /\ Len(after.messages) = l
        BY <2>7, <3>0, <3>2
      <4>2. QED BY <3>0, <3>1b, <4>1
    <3>3. CASE r.message # NoMessage
      <4>1. PICK message : message = [client |-> r.client, message |-> r.message]
        OBVIOUS
      <4>2. message \in ReadMessages
        BY <2>4, <4>1 DEF ReadMessages
      <4>3. Len(Append(before.messages, message)) = Len(before.messages) + 1
        BY <3>1, <4>2
      <4>4. Len(after.errors) = b /\ Len(after.messages) = l + 1
        BY <2>7, <3>0, <3>3, <4>1, <4>3
      <4>5. QED BY <3>0, <3>1b, <4>4
    <3>4. QED BY <3>2, <3>3
  <2>10. QED BY <2>5, <2>6, <2>7, <2>8, <2>9 DEF Good
<1>7. C = {}
  <2>1. C \subseteq 0..n
    OBVIOUS
  <2> HIDE DEF C
  <2>2. QED BY <1>5, <1>6, <2>1, NoFirstFailure
<1>8. Good(n)
  <2>1. n \in 0..n
    OBVIOUS
  <2>2. QED BY <1>7, <2>1
<1>9. QED BY <1>3, <1>4, <1>8

-------------------------------------------------------------------------------
(* CodecTransport: its invariant *)

CodecIInv ==
  /\ receivedBytes \in Seq(HeldFrames)
  /\ codecErrors \in Seq(ReportedErrors)
  /\ Len(receivedBytes) + Len(codecErrors) <= MaxHeld
  /\ lastCall.call \in {"None", "send", "drain_received"}

LEMMA CodecInitIInv == CodecInit => CodecIInv
<1> SUFFICES ASSUME CodecInit PROVE CodecIInv
  OBVIOUS
<1>1. Len(<<>>) + Len(<<>>) <= MaxHeld
  BY CodecTransportAssumption
<1>2. QED BY <1>1 DEF CodecInit, CodecIInv, NoCall

LEMMA PushKeeps ==
  ASSUME CodecIInv, NEW c \in Peer, NEW written \in WrittenFrames \cup DamagedFrames,
         PushReceivedBytes(c, written)
  PROVE  CodecIInv'
<1>1. PICK r : r = [client |-> c, bytes |-> written.frame, message |-> written.message]
  OBVIOUS
<1>2. r \in HeldFrames
  BY <1>1 DEF HeldFrames
<1>3. receivedBytes' = Append(receivedBytes, r) /\ lastCall' = NoCall /\ codecErrors' = codecErrors
  BY <1>1 DEF PushReceivedBytes
<1>4. receivedBytes' \in Seq(HeldFrames) /\ Len(receivedBytes') = Len(receivedBytes) + 1
  BY <1>2, <1>3 DEF CodecIInv
<1>5. Len(receivedBytes') + Len(codecErrors') <= MaxHeld
  <2>1. Len(receivedBytes) \in Nat /\ Len(codecErrors) \in Nat
    BY DEF CodecIInv
  <2>2. Len(receivedBytes) + Len(codecErrors) < MaxHeld
    BY DEF PushReceivedBytes, Room
  <2>3. QED BY <1>3, <1>4, <2>1, <2>2, CodecTransportAssumption
<1>6. QED BY <1>3, <1>4, <1>5 DEF CodecIInv, NoCall

LEMMA PushedIsHeld ==
  ASSUME CodecIInv, NEW c \in Peer,
         \/ \E written \in GodotFrames : PushReceivedBytes(c, written) \/ PushDamaged(c, written)
         \/ \E n \in Sequences : PushReceivedMessage(c, AckSnapshot(n))
         \/ \E payload \in Payloads : PushReceivedMessage(c, Input(payload))
  PROVE  CodecIInv'
<1>1. ASSUME NEW written \in GodotFrames, PushReceivedBytes(c, written) PROVE CodecIInv'
  BY <1>1, PushKeeps DEF WrittenFrames
<1>2. ASSUME NEW whole \in GodotFrames, PushDamaged(c, whole) PROVE CodecIInv'
  <2>1. PICK frame \in Damaged(whole.frame) :
          PushReceivedBytes(c, [frame |-> frame, message |-> NoMessage])
    BY <1>2 DEF PushDamaged
  <2>2. [frame |-> frame, message |-> NoMessage] \in DamagedFrames
    BY DEF DamagedFrames
  <2>3. QED BY <2>1, <2>2, PushKeeps
<1>3. ASSUME NEW n \in Sequences, PushReceivedMessage(c, AckSnapshot(n)) PROVE CodecIInv'
  <2>1. PICK written : written = Written(Encode(AckSnapshot(n)), AckSnapshot(n))
    OBVIOUS
  <2>2. written \in WrittenFrames
    BY <2>1 DEF WrittenFrames
  <2>3. PushReceivedBytes(c, written)
    BY <1>3, <2>1 DEF PushReceivedMessage
  <2>4. QED BY <2>2, <2>3, PushKeeps
<1>4. ASSUME NEW p \in Payloads, PushReceivedMessage(c, Input(p)) PROVE CodecIInv'
  <2>1. PICK written : written = Written(Encode(Input(p)), Input(p))
    OBVIOUS
  <2>2. written \in WrittenFrames
    BY <2>1 DEF WrittenFrames
  <2>3. PushReceivedBytes(c, written)
    BY <1>4, <2>1 DEF PushReceivedMessage
  <2>4. QED BY <2>2, <2>3, PushKeeps
<1>5. QED BY <1>1, <1>2, <1>3, <1>4

LEMMA SendKeepsCodec ==
  ASSUME CodecIInv, NEW c \in Peer, NEW m \in ServerMessages, Send(c, m)
  PROVE  CodecIInv' /\ receivedBytes' = receivedBytes
<1>1. receivedBytes = <<>> /\ codecErrors = <<>> /\ receivedBytes' = receivedBytes
  BY DEF Send, NothingHeld
<1>2. CASE EncodeError(m) = NoError
  <2>1. codecErrors' = codecErrors /\ lastCall'.call = "send"
    BY <1>2 DEF Send
  <2>2. QED BY <1>1, <2>1 DEF CodecIInv
<1>3. CASE EncodeError(m) # NoError
  <2>1. PICK e : e = EncodeServerError(c, EncodeError(m))
    OBVIOUS
  <2>2. codecErrors' = Append(codecErrors, e) /\ lastCall' = NoCall
    BY <1>3, <2>1 DEF Send
  <2>3. e \in ReportedErrors
    BY <2>1 DEF ReportedErrors
  <2>4. codecErrors' \in Seq(ReportedErrors) /\ Len(codecErrors') = 1
    BY <1>1, <2>2, <2>3
  <2>5. Len(receivedBytes') + Len(codecErrors') <= MaxHeld
    <3>1. Len(receivedBytes') = 0
      BY <1>1
    <3>2. QED BY <2>4, <3>1, CodecTransportAssumption
  <2>6. QED BY <1>1, <2>2, <2>4, <2>5 DEF CodecIInv, NoCall
<1>4. QED BY <1>1, <1>2, <1>3

LEMMA DrainKeeps ==
  ASSUME CodecIInv, DrainReceived
  PROVE  /\ CodecIInv' /\ receivedBytes' = <<>>
         /\ lastCall'.messages = IntactOf(receivedBytes)
         /\ Len(codecErrors') - Len(codecErrors) = Len(receivedBytes) - Len(IntactOf(receivedBytes))
<1>1. PICK n, out : n \in Nat /\ n = Len(receivedBytes) /\ out = DrainOf(codecErrors, receivedBytes)
  BY DEF CodecIInv
<1>2. receivedBytes \in [1..n -> HeldFrames] /\ codecErrors \in Seq(ReportedErrors)
  BY <1>1 DEF CodecIInv
<1>3. /\ out \in Drains /\ out.messages = IntactOf(receivedBytes)
      /\ Len(out.errors) + Len(out.messages) = Len(codecErrors) + n
  BY <1>1, <1>2, DrainIs
<1>4. /\ receivedBytes' = <<>> /\ codecErrors' = out.errors
      /\ lastCall' = [call |-> "drain_received", messages |-> out.messages]
  BY <1>1 DEF DrainReceived, DrainOf
<1>5. /\ out.errors \in Seq(ReportedErrors) /\ Len(out.errors) \in Nat
      /\ Len(out.messages) \in Nat /\ Len(codecErrors) \in Nat
  BY <1>2, <1>3 DEF Drains
<1>6. Len(receivedBytes') + Len(codecErrors') <= MaxHeld
  <2>1. n + Len(codecErrors) <= MaxHeld
    BY <1>1 DEF CodecIInv
  <2>2. Len(receivedBytes') = 0
    BY <1>4
  <2>3. QED BY <1>1, <1>3, <1>4, <1>5, <2>1, <2>2, CodecTransportAssumption
<1>7. CodecIInv'
  <2>1. receivedBytes' \in Seq(HeldFrames)
    BY <1>4
  <2>2. lastCall'.call = "drain_received"
    BY <1>4
  <2>3. QED BY <1>4, <1>5, <1>6, <2>1, <2>2 DEF CodecIInv
<1>8. lastCall'.messages = out.messages
  BY <1>4
<1>9. Len(codecErrors') - Len(codecErrors) = n - Len(out.messages)
  BY <1>1, <1>3, <1>4, <1>5
<1>10. QED BY <1>1, <1>3, <1>4, <1>7, <1>8, <1>9

LEMMA CodecStepIInv == CodecIInv /\ [CodecNext]_codecVars => CodecIInv'
<1> SUFFICES ASSUME CodecIInv, [CodecNext]_codecVars PROVE CodecIInv'
  OBVIOUS
<1>1. ASSUME NEW c \in Peer, NEW m \in ServerMessages, Send(c, m) PROVE CodecIInv'
  BY <1>1, SendKeepsCodec
<1>2. CASE DrainReceived
  BY <1>2, DrainKeeps
<1>3. CASE TakeCodecErrors
  <2>1. receivedBytes' = receivedBytes /\ codecErrors' = <<>> /\ lastCall' = NoCall
    BY <1>3 DEF TakeCodecErrors
  <2>2. Len(receivedBytes') + Len(codecErrors') <= MaxHeld
    <3>1. Len(receivedBytes) \in Nat /\ Len(codecErrors) \in Nat /\ Len(<<>>) = 0
      BY DEF CodecIInv
    <3>2. Len(receivedBytes) + Len(codecErrors) <= MaxHeld
      BY DEF CodecIInv
    <3>3. QED BY <2>1, <3>1, <3>2, CodecTransportAssumption
  <2>3. QED BY <2>1, <2>2 DEF CodecIInv, NoCall
<1>4. CASE UNCHANGED codecVars
  BY <1>4 DEF CodecIInv, codecVars
<1>5. QED BY <1>1, <1>2, <1>3, <1>4, PushedIsHeld DEF CodecNext

(* The inductive invariant of the codec's transport: each frame held is read as *)
(* the message recorded with it, or refused where none is.                     *)
THEOREM CodecSpecIInv == CodecSpec => []CodecIInv
BY CodecInitIInv, CodecStepIInv, PTL DEF CodecSpec

(* The codec's transport keeps its types and its bound, whatever is sent to it *)
(* and however frames are damaged.                                             *)
THEOREM CodecTypeCorrect == CodecSpec => []CodecTypeOK
<1>1. CodecIInv => CodecTypeOK
  <2> SUFFICES ASSUME CodecIInv PROVE CodecTypeOK
    OBVIOUS
  <2>1. \A i \in DOMAIN receivedBytes : receivedBytes[i].client \in Peer
    <3>1. \A i \in DOMAIN receivedBytes : receivedBytes[i] \in HeldFrames
      BY DEF CodecIInv
    <3>2. QED BY <3>1, HeldReads
  <2>2. \A i \in DOMAIN codecErrors : codecErrors[i].client \in Peer
    <3>1. \A e \in ReportedErrors : e.client \in Peer
      BY HeldReads DEF ReportedErrors, EncodeServerError, DecodeClientError
    <3>2. \A i \in DOMAIN codecErrors : codecErrors[i] \in ReportedErrors
      BY DEF CodecIInv
    <3>3. QED BY <3>1, <3>2
  <2>3. QED BY <2>1, <2>2 DEF CodecIInv, CodecTypeOK
<1>2. QED BY <1>1, CodecSpecIInv, PTL

(* A drain returns the messages of the intact frames in their order and one    *)
(* error for each other: for any inputs and payloads clients send, any limit   *)
(* on payloads and every way a frame is damaged.                               *)
THEOREM DrainsAreExact == CodecSpec => DrainIsExact
<1> DEFINE Exact ==
      receivedBytes # <<>> /\ receivedBytes' = <<>> =>
        LET intact == FoldLeft(Intact, <<>>, receivedBytes)
        IN  /\ lastCall'.messages = intact
            /\ Len(codecErrors') - Len(codecErrors) = Len(receivedBytes) - Len(intact)
<1>1. CodecIInv /\ [CodecNext]_codecVars => [Exact]_codecVars
  <2> SUFFICES ASSUME CodecIInv, CodecNext, receivedBytes # <<>>, receivedBytes' = <<>>
               PROVE  Exact
    OBVIOUS
  <2>1. CASE DrainReceived
    BY <2>1, DrainKeeps DEF IntactOf
  <2>2. ASSUME NEW c \in Peer, NEW written, PushReceivedBytes(c, written) PROVE FALSE
    <3>1. PICK r : receivedBytes' = Append(receivedBytes, r)
      BY <2>2 DEF PushReceivedBytes
    <3>2. receivedBytes' # <<>>
      <4>1. PICK S : receivedBytes \in Seq(S) /\ r \in S
        <5>1. receivedBytes \in Seq(HeldFrames \cup {r})
          BY DEF CodecIInv
        <5>2. QED BY <5>1
      <4>2. QED BY <3>1, <4>1
    <3>3. QED BY <3>2
  <2>3. ASSUME NEW c \in Peer, NEW m \in ServerMessages, Send(c, m) PROVE FALSE
    BY <2>3 DEF Send
  <2>4. CASE TakeCodecErrors
    BY <2>4 DEF TakeCodecErrors
  <2>5. QED BY <2>1, <2>2, <2>3, <2>4 DEF CodecNext, PushDamaged, PushReceivedMessage
<1>2. QED BY <1>1, CodecSpecIInv, PTL DEF CodecSpec, DrainIsExact

-------------------------------------------------------------------------------
(* Codec: lengths of what is put together *)

Widths(S) == \A field \in S : field.width \in Nat

\* q sums up the widths of the first n fields of s.
SumsUp(q, s, n) ==
  /\ q[0] = 0 /\ \A i \in 0..n : q[i] \in Nat
  /\ \A i \in 1..n : q[i] = q[i - 1] + s[i].width

LEMMA BytesRun ==
  ASSUME NEW S, Widths(S), NEW n \in Nat, NEW s \in [1..n -> S]
  PROVE  \E p : SumsUp(p, s, n) /\ Bytes(s) = p[n]
<1>1. s \in [1..n -> S] /\ \A i \in 1..n : s[i].width \in Nat
  BY DEF Widths
<1>2. PICK p : /\ p[0] = 0 /\ \A i \in 1..n : p[i] = p[i - 1] + s[i].width
               /\ Bytes(s) = p[n]
  BY <1>1, BytesIsLoop
<1> DEFINE C == {i \in 0..n : p[i] \notin Nat}
<1>3. 0 \notin C
  BY <1>2
<1>4. ASSUME NEW i \in 1..n, i \in C PROVE i - 1 \in C
  <2>1. p[i] = p[i - 1] + s[i].width /\ s[i].width \in Nat /\ i - 1 \in 0..n
    BY <1>1, <1>2
  <2>2. QED BY <1>4, <2>1
<1>5. C = {}
  <2>1. C \subseteq 0..n
    OBVIOUS
  <2> HIDE DEF C
  <2>2. QED BY <1>3, <1>4, <2>1, NoFirstFailure
<1>6. QED BY <1>2, <1>5 DEF SumsUp

\* Bytes is the one sum that satisfies its equation.
LEMMA BytesAre ==
  ASSUME NEW S, Widths(S), NEW n \in Nat, NEW s \in [1..n -> S],
         NEW q, SumsUp(q, s, n)
  PROVE  Bytes(s) = q[n]
<1>1. PICK p : SumsUp(p, s, n) /\ Bytes(s) = p[n]
  BY BytesRun
<1> DEFINE C == {i \in 0..n : p[i] # q[i]}
<1>2. 0 \notin C
  BY <1>1 DEF SumsUp
<1>3. ASSUME NEW i \in 1..n, i \in C PROVE i - 1 \in C
  <2>1. p[i] = p[i - 1] + s[i].width /\ q[i] = q[i - 1] + s[i].width /\ i - 1 \in 0..n
    BY <1>1 DEF SumsUp
  <2>2. QED BY <1>3, <2>1
<1>4. C = {}
  <2>1. C \subseteq 0..n
    OBVIOUS
  <2> HIDE DEF C
  <2>2. QED BY <1>2, <1>3, <2>1, NoFirstFailure
<1>5. QED BY <1>1, <1>4

LEMMA BytesJoin ==
  ASSUME NEW S, Widths(S), NEW s \in Seq(S), NEW t \in Seq(S)
  PROVE  Bytes(s \o t) = Bytes(s) + Bytes(t) /\ Bytes(s) \in Nat
<1>1. PICK n \in Nat, m \in Nat : n = Len(s) /\ m = Len(t) /\ s \in [1..n -> S] /\ t \in [1..m -> S]
  OBVIOUS
<1>2. PICK p : SumsUp(p, s, n) /\ Bytes(s) = p[n]
  BY <1>1, BytesRun
<1>3. PICK q : SumsUp(q, t, m) /\ Bytes(t) = q[m]
  BY <1>1, BytesRun
<1>4. PICK u : u = s \o t
  OBVIOUS
<1>5. /\ u \in Seq(S) /\ Len(u) = n + m
      /\ \A i \in 1..n : u[i] = s[i]
      /\ \A i \in 1..m : u[n + i] = t[i]
  BY <1>1, <1>4, JoinIs
<1> DEFINE r == [i \in 0..(n + m) |-> IF i <= n THEN p[i] ELSE p[n] + q[i - n]]
<1>6. r[0] = 0
  BY <1>1, <1>2 DEF SumsUp
<1>7. ASSUME NEW i \in 1..(n + m) PROVE r[i] = r[i - 1] + u[i].width
  <2>1. CASE i <= n
    <3>1. i \in 1..n /\ i - 1 \in 0..(n + m) /\ i \in 0..(n + m) /\ i - 1 <= n
      BY <1>1, <2>1
    <3>2. r[i] = p[i] /\ r[i - 1] = p[i - 1] /\ u[i] = s[i]
      BY <1>5, <2>1, <3>1
    <3>3. QED BY <1>2, <3>1, <3>2 DEF SumsUp
  <2>2. CASE i > n
    <3>1. PICK j \in 1..m : i = n + j
      <4>1. i - n \in 1..m /\ i = n + (i - n)
        BY <1>1, <2>2
      <4>2. QED BY <4>1
    <3>2. r[i] = p[n] + q[j] /\ u[i] = t[j]
      BY <1>1, <1>5, <2>2, <3>1
    <3>3. r[i - 1] = p[n] + q[j - 1]
      <4>1. CASE j = 1
        <5>1. i - 1 = n /\ i - 1 \in 0..(n + m)
          BY <1>1, <3>1, <4>1
        <5>2. r[i - 1] = p[n] /\ p[n] \in Nat /\ q[j - 1] = 0
          <6>1. j - 1 = 0 /\ n \in 0..n
            BY <1>1, <4>1
          <6>2. QED BY <1>2, <1>3, <5>1, <6>1 DEF SumsUp
        <5>3. QED BY <5>2
      <4>2. CASE j # 1
        <5>1. i - 1 \in 0..(n + m) /\ ~ (i - 1 <= n) /\ (i - 1) - n = j - 1
          BY <1>1, <3>1, <4>2
        <5>2. QED BY <5>1
      <4>3. QED BY <4>1, <4>2
    <3>4. q[j] = q[j - 1] + t[j].width /\ t[j].width \in Nat /\ q[j - 1] \in Nat /\ p[n] \in Nat
      <4>1. j - 1 \in 0..m /\ n \in 0..n /\ t[j] \in S
        BY <1>1
      <4>2. QED BY <1>2, <1>3, <4>1 DEF Widths, SumsUp
    <3> HIDE DEF r
    <3>5. QED BY <3>2, <3>3, <3>4
  <2>3. QED BY <1>1, <2>1, <2>2
<1>8. r[n + m] = p[n] + q[m]
  <2>1. CASE m = 0
    <3>1. r[n + m] = p[n] /\ q[m] = 0 /\ p[n] \in Nat
      BY <1>1, <1>2, <1>3, <2>1 DEF SumsUp
    <3>2. QED BY <3>1
  <2>2. CASE m # 0
    <3>1. n + m \in 0..(n + m) /\ ~ (n + m <= n) /\ (n + m) - n = m
      BY <1>1, <2>2
    <3>2. QED BY <3>1
  <2>3. QED BY <2>1, <2>2
<1> HIDE DEF r
<1>9. Bytes(u) = r[n + m]
  <2>1. n + m \in Nat /\ u \in [1..(n + m) -> S]
    BY <1>1, <1>5
  <2>2. \A i \in 0..(n + m) : r[i] \in Nat
    <3> SUFFICES ASSUME NEW i \in 0..(n + m) PROVE r[i] \in Nat
      OBVIOUS
    <3>1. CASE i <= n
      <4>1. i \in 0..n
        BY <3>1
      <4>2. QED BY <1>2, <3>1, <4>1 DEF SumsUp, r
    <3>2. CASE ~ (i <= n)
      <4>1. i - n \in 0..m /\ n \in 0..n
        BY <1>1, <3>2
      <4>2. q[i - n] \in Nat /\ p[n] \in Nat
        BY <1>2, <1>3, <4>1 DEF SumsUp
      <4>3. r[i] = p[n] + q[i - n]
        BY <3>2 DEF r
      <4>4. QED BY <4>2, <4>3
    <3>3. QED BY <3>1, <3>2
  <2>3. SumsUp(r, u, n + m)
    BY <1>6, <1>7, <2>2 DEF SumsUp
  <2>4. QED BY <2>1, <2>3, BytesAre
<1>10. Bytes(s) \in Nat
  <2>1. n \in 0..n
    BY <1>1
  <2>2. QED BY <1>2, <2>1 DEF SumsUp
<1>11. QED BY <1>2, <1>3, <1>4, <1>8, <1>9, <1>10

\* u is s followed by t.
Joins(u, s, t) ==
  /\ Len(u) = Len(s) + Len(t)
  /\ \A i \in 1..Len(s) : u[i] = s[i]
  /\ \A i \in 1..Len(t) : u[Len(s) + i] = t[i]
  /\ Bytes(u) = Bytes(s) + Bytes(t) /\ Bytes(s) \in Nat /\ Bytes(t) \in Nat

LEMMA JoinsAre ==
  ASSUME NEW S, Widths(S), NEW s \in Seq(S), NEW t \in Seq(S), NEW u, u = s \o t
  PROVE  u \in Seq(S) /\ Joins(u, s, t)
<1>1. /\ u \in Seq(S) /\ Len(u) = Len(s) + Len(t)
      /\ \A i \in 1..Len(s) : u[i] = s[i]
      /\ \A i \in 1..Len(t) : u[Len(s) + i] = t[i]
  OBVIOUS
<1>2. Bytes(u) = Bytes(s) + Bytes(t) /\ Bytes(s) \in Nat
  BY BytesJoin
<1>3. Bytes(t) \in Nat
  BY BytesJoin
<1>4. QED BY <1>1, <1>2, <1>3 DEF Joins

LEMMA BytesOfEmpty == Bytes(<<>>) = 0
<1>1. <<>> \in [1..0 -> {}] /\ Widths({})
  BY DEF Widths
<1> DEFINE q == [i \in 0..0 |-> 0]
<1>2. q[0] = 0 /\ SumsUp(q, <<>>, 0)
  BY DEF SumsUp
<1> HIDE DEF q
<1>3. QED BY <1>1, <1>2, BytesAre

\* Up to four fields
LEMMA BytesOfFew ==
  ASSUME NEW S, Widths(S), NEW s \in Seq(S)
  PROVE  /\ Len(s) = 1 => Bytes(s) = s[1].width
         /\ Len(s) = 2 => Bytes(s) = s[1].width + s[2].width
         /\ Len(s) = 3 => Bytes(s) = s[1].width + s[2].width + s[3].width
         /\ Len(s) = 4 => Bytes(s) = s[1].width + s[2].width + s[3].width + s[4].width
<1>1. PICK n \in Nat : n = Len(s) /\ s \in [1..n -> S]
  OBVIOUS
<1>2. PICK p : SumsUp(p, s, n) /\ Bytes(s) = p[n]
  BY <1>1, BytesRun
<1>3. \A i \in 1..n : s[i].width \in Nat
  BY <1>1 DEF Widths
<1>4. n >= 1 => p[1] = s[1].width
  <2>1. n >= 1 => p[1] = p[1 - 1] + s[1].width /\ s[1].width \in Nat
    BY <1>2, <1>3 DEF SumsUp
  <2>2. QED BY <1>2, <2>1 DEF SumsUp
<1>5. n >= 2 => p[2] = s[1].width + s[2].width
  <2>1. n >= 2 => p[2] = p[2 - 1] + s[2].width
    BY <1>2 DEF SumsUp
  <2>2. QED BY <1>4, <2>1
<1>6. n >= 3 => p[3] = s[1].width + s[2].width + s[3].width
  <2>1. n >= 3 => p[3] = p[3 - 1] + s[3].width
    BY <1>2 DEF SumsUp
  <2>2. QED BY <1>5, <2>1
<1>7. n >= 4 => p[4] = s[1].width + s[2].width + s[3].width + s[4].width
  <2>1. n >= 4 => p[4] = p[4 - 1] + s[4].width
    BY <1>2 DEF SumsUp
  <2>2. QED BY <1>6, <2>1
<1>8. QED BY <1>1, <1>2, <1>4, <1>5, <1>6, <1>7
-------------------------------------------------------------------------------
(* Codec: the fields of payloads and operations *)

LEMMA BytesFieldsAre ==
  ASSUME NEW p, IsPayload(p)
  PROVE  /\ BytesFields(p) = IF p = <<>> THEN <<Field(4, Bytes(p))>>
                             ELSE <<Field(4, Bytes(p)), Field(Bytes(p), p)>>
         /\ Bytes(p) \in Nat /\ (p # <<>> <=> Bytes(p) # 0)
<1>1. PICK a, b, S : a = Field(4, Bytes(p)) /\ b = Field(Bytes(p), p) /\ S = {a, b}
  OBVIOUS
<1>2. PICK s, t : s = <<a>> /\ t = <<b>>
  OBVIOUS
<1>3. s \in Seq(S) /\ t \in Seq(S) /\ Len(s) = 1 /\ Len(t) = 1 /\ s[1] = a /\ t[1] = b
  BY <1>1, <1>2
<1>4. s \o <<>> = s
  BY <1>3
<1>5. s \o t = <<a, b>>
  <2>1. PICK u, w : u = s \o t /\ w = <<a, b>>
    OBVIOUS
  <2>2. w \in Seq(S) /\ Len(w) = 2 /\ w[1] = a /\ w[2] = b
    BY <1>1, <2>1
  <2>3. u \in Seq(S) /\ Len(u) = 2 /\ u[1] = a /\ u[2] = b
    <3>1. /\ u \in Seq(S) /\ Len(u) = Len(s) + Len(t)
          /\ \A i \in 1..Len(s) : u[i] = s[i]
          /\ \A i \in 1..Len(t) : u[Len(s) + i] = t[i]
      BY <1>3, <2>1, JoinIs
    <3>2. 1 \in 1..Len(s) /\ 1 \in 1..Len(t) /\ Len(s) + 1 = 2
      BY <1>3
    <3>3. u[1] = s[1] /\ u[2] = t[1]
      BY <3>1, <3>2
    <3>4. QED BY <1>3, <3>1, <3>3
  <2>4. u = w
    BY <2>2, <2>3
  <2>5. QED BY <2>1, <2>4
<1>6. BytesFields(p) = s \o (IF p = <<>> THEN <<>> ELSE t)
  BY <1>1, <1>2 DEF BytesFields
<1>7. QED BY <1>1, <1>2, <1>4, <1>5, <1>6, BytesOfPayload

\* what an operation's fields are, and how many
OpSize(op) == IF ~ HasPayload(op) THEN 2 ELSE IF op.payload = <<>> THEN 3 ELSE 4

LEMMA OpFieldsAre ==
  ASSUME NEW op, IsOp(op), NEW f, f = OpFields(op)
  PROVE  /\ (\E S : Widths(S) /\ f \in Seq(S)) /\ Len(f) = OpSize(op)
         /\ f[1] = Field(1, OpTag[op.op]) /\ f[2] = Field(8, op.entity)
         /\ HasPayload(op) => /\ IsPayload(op.payload) /\ f[3] = Field(4, Bytes(op.payload))
                              /\ op.payload # <<>> => f[4] = Field(Bytes(op.payload), op.payload)
         /\ Bytes(f) = EncodedOpLen(op) /\ Bytes(f) \in Nat
<1>1. PICK a, b, s : a = Field(1, OpTag[op.op]) /\ b = Field(8, op.entity) /\ s = <<a, b>>
  OBVIOUS
<1>2. a.width = 1 /\ b.width = 8
  BY <1>1 DEF Field
<1>3. CASE ~ HasPayload(op)
  <2>1. PICK S : S = {a, b}
    OBVIOUS
  <2>2. s \in Seq(S) /\ Len(s) = 2 /\ s[1] = a /\ s[2] = b /\ Widths(S)
    BY <1>1, <1>2, <2>1 DEF Widths
  <2>3. s \o <<>> = s
    BY <2>2
  <2>4. f = s
    BY <1>1, <1>3, <2>3 DEF OpFields
  <2>5. Bytes(s) = 1 + 8
    BY <1>2, <2>2, BytesOfFew
  <2>6. EncodedOpLen(op) = 1 + 8
    BY <1>3 DEF EncodedOpLen
  <2>7. QED BY <1>1, <1>3, <2>2, <2>4, <2>5, <2>6 DEF OpSize
<1>4. CASE HasPayload(op)
  <2>1. PICK p : p = op.payload
    OBVIOUS
  <2>2. IsPayload(p)
    BY <1>4, <2>1 DEF IsOp, HasPayload, DespawnOp
  <2>3. Bytes(p) \in Nat /\ (p # <<>> <=> Bytes(p) # 0)
    BY <2>2, BytesFieldsAre
  <2>4. PICK c, d, t, S : /\ c = Field(4, Bytes(p)) /\ d = Field(Bytes(p), p)
                          /\ t = BytesFields(p) /\ S = {a, b, c, d}
    OBVIOUS
  <2>5. c.width = 4 /\ d.width = Bytes(p)
    BY <2>4 DEF Field
  <2>6. Widths(S)
    BY <1>2, <2>3, <2>4, <2>5 DEF Widths
  <2>7. /\ t \in Seq(S) /\ t[1] = c
        /\ IF p = <<>> THEN Len(t) = 1 ELSE Len(t) = 2 /\ t[2] = d
    <3>1. t = IF p = <<>> THEN <<c>> ELSE <<c, d>>
      BY <2>2, <2>4, BytesFieldsAre
    <3>2. CASE p = <<>>
      BY <2>4, <3>1, <3>2
    <3>3. CASE p # <<>>
      BY <2>4, <3>1, <3>3
    <3>4. QED BY <3>2, <3>3
  <2>8. s \in Seq(S) /\ Len(s) = 2 /\ s[1] = a /\ s[2] = b
    BY <1>1, <2>4
  <2>9. f = s \o t
    BY <1>1, <1>4, <2>1, <2>4 DEF OpFields
  <2>10. /\ f \in Seq(S) /\ Len(f) = 2 + Len(t)
         /\ f[1] = a /\ f[2] = b /\ f[3] = c
         /\ p # <<>> => f[4] = d
    <3>1. /\ f \in Seq(S) /\ Len(f) = Len(s) + Len(t)
          /\ \A i \in 1..Len(s) : f[i] = s[i]
          /\ \A i \in 1..Len(t) : f[Len(s) + i] = t[i]
      <4>1. s \in Seq(S) /\ t \in Seq(S)
        BY <2>7, <2>8
      <4>2. /\ s \o t \in Seq(S) /\ Len(s \o t) = Len(s) + Len(t)
            /\ \A i \in 1..Len(s) : (s \o t)[i] = s[i]
            /\ \A i \in 1..Len(t) : (s \o t)[Len(s) + i] = t[i]
        BY ONLY <4>1, JoinIs
      <4>3. QED BY ONLY <2>9, <4>2
    <3>2. 1 \in 1..Len(s) /\ 2 \in 1..Len(s) /\ 1 \in 1..Len(t) /\ (p # <<>> => 2 \in 1..Len(t))
      BY <2>7, <2>8
    <3>3. f[1] = s[1] /\ f[2] = s[2] /\ f[2 + 1] = t[1] /\ (p # <<>> => f[2 + 2] = t[2])
      BY <2>8, <3>1, <3>2
    <3>4. 2 + 1 = 3 /\ 2 + 2 = 4
      OBVIOUS
    <3>5. QED BY <2>7, <2>8, <3>1, <3>3, <3>4
  <2>11. Len(f) = OpSize(op)
    <3>1. OpSize(op) = IF p = <<>> THEN 3 ELSE 4
      BY <1>4, <2>1 DEF OpSize
    <3>2. Len(t) = IF p = <<>> THEN 1 ELSE 2
      BY <2>7
    <3>3. QED BY <2>10, <3>1, <3>2
  <2>12. Bytes(t) = 4 + Bytes(p)
    <3>1. CASE p = <<>>
      <4>1. Bytes(t) = t[1].width /\ Bytes(p) = 0
        BY <2>3, <2>6, <2>7, <3>1, BytesOfFew
      <4>2. QED BY <2>5, <2>7, <4>1
    <3>2. CASE p # <<>>
      <4>1. Bytes(t) = t[1].width + t[2].width
        BY <2>6, <2>7, <3>2, BytesOfFew
      <4>2. QED BY <2>5, <2>7, <3>2, <4>1
    <3>3. QED BY <3>1, <3>2
  <2>13. Bytes(s) = 1 + 8
    BY <1>2, <2>6, <2>8, BytesOfFew
  <2>14. Bytes(f) = 1 + 8 + (4 + Bytes(p))
    <3>1. Bytes(f) = Bytes(s) + Bytes(t)
      BY <2>6, <2>7, <2>8, <2>9, BytesJoin
    <3>2. QED BY <2>3, <2>12, <2>13, <3>1
  <2>15. EncodedOpLen(op) = 1 + 8 + (4 + Bytes(p))
    BY <1>4, <2>1 DEF EncodedOpLen, EncodedBytesLen
  <2>16. QED BY <1>1, <2>1, <2>2, <2>3, <2>4, <2>6, <2>10, <2>11, <2>14, <2>15
<1>5. QED BY <1>3, <1>4
-------------------------------------------------------------------------------
(* Codec: the operations of a message, one after the other *)

Joined(ops) == FoldLeft(LAMBDA fields, op : fields \o OpFields(op), <<>>, ops)
JoinedEquation(f, ops) ==
  f = [s \in SUBSET DOMAIN ops |-> IF s = {} THEN <<>> ELSE f[s \ {Max(s)}] \o OpFields(ops[Max(s)])]

LensOf(ops) == FoldLeft(LAMBDA n, op : n + EncodedOpLen(op), 0, ops)
LensEquation(f, ops) ==
  f = [s \in SUBSET DOMAIN ops |-> IF s = {} THEN 0 ELSE f[s \ {Max(s)}] + EncodedOpLen(ops[Max(s)])]

\* c has the fields of the first i operations.
Grows(c, ops, n, X) ==
  /\ c[0] = <<>> /\ \A i \in 0..n : c[i] \in Seq(X)
  /\ \A i \in 1..n : c[i] = c[i - 1] \o OpFields(ops[i]) /\ OpFields(ops[i]) \in Seq(X)

LEMMA OpsAre ==
  ASSUME NEW ops, IsOps(ops), NEW n, n = Len(ops)
  PROVE  /\ n \in Nat /\ ops = [i \in 1..n |-> ops[i]] /\ DOMAIN ops = 1..n
         /\ \A i \in 1..n : IsOp(ops[i])
BY DEF IsOps, IsSequence

LEMMA JoinedIsLoop ==
  ASSUME NEW ops, IsOps(ops), NEW n, n = Len(ops)
  PROVE  \E c, X : Widths(X) /\ Grows(c, ops, n, X) /\ Joined(ops) = c[n]
<1>1. n \in Nat /\ ops = [i \in 1..n |-> ops[i]] /\ DOMAIN ops = 1..n /\ \A i \in 1..n : IsOp(ops[i])
  BY OpsAre
<1> DEFINE B == {ops[i] : i \in 1..n}
           X == UNION {Range(OpFields(op)) : op \in B}
           step == [r \in Seq(X) \X B |-> r[1] \o OpFields(r[2])]
<1>2. ASSUME NEW op \in B
      PROVE  OpFields(op) \in Seq(X) /\ \A field \in Range(OpFields(op)) : field.width \in Nat
  <2>1. IsOp(op)
    BY <1>1
  <2>2. PICK f : f = OpFields(op)
    OBVIOUS
  <2>3. PICK S : Widths(S) /\ f \in Seq(S)
    BY <2>1, <2>2, OpFieldsAre
  <2>4. PICK m \in Nat : m = Len(f) /\ f \in [1..m -> S]
    BY <2>3
  <2>5. f \in [1..m -> Range(f)] /\ Range(f) \subseteq S
    BY <2>4 DEF Range
  <2>6. Range(f) \subseteq X
    BY <2>2
  <2>7. f \in [1..m -> X]
    BY <2>5, <2>6
  <2>8. f \in Seq(X)
    BY <2>7
  <2>9. QED BY <2>2, <2>3, <2>5, <2>8 DEF Widths
<1>3. Widths(X)
  BY <1>2 DEF Widths
<1>4. \A a \in Seq(X), op \in B : a \o OpFields(op) \in Seq(X) /\ step[<<a, op>>] = a \o OpFields(op)
  <2>1. \A a, f \in Seq(X) : a \o f \in Seq(X)
    <3> HIDE DEF X
    <3> QED OBVIOUS
  <2>2. \A a \in Seq(X), op \in B : step[<<a, op>>] = a \o OpFields(op)
    OBVIOUS
  <2> HIDE DEF X, B, step
  <2>3. QED BY <1>2, <2>1, <2>2
<1>5. step \in [Seq(X) \X B -> Seq(X)]
  <2>1. \A r \in Seq(X) \X B : r[1] \o OpFields(r[2]) \in Seq(X)
    BY <1>4
  <2> HIDE DEF X, B
  <2>2. QED BY <2>1
<1>6. ops \in [1..n -> B] /\ <<>> \in Seq(X)
  BY <1>1
<1> HIDE DEF X, B, step
<1>7. PICK f : IsLoop(f, ops, <<>>, step, Seq(X), B)
  BY <1>1, <1>5, <1>6, LoopExists
<1>8. JoinedEquation(f, ops)
  <2>1. \A s \in SUBSET DOMAIN ops :
          s # {} => step[<<f[s \ {Max(s)}], ops[Max(s)]>>] = f[s \ {Max(s)}] \o OpFields(ops[Max(s)])
    BY <1>4, <1>7 DEF IsLoop
  <2>2. QED BY <1>7, <2>1 DEF JoinedEquation, IsLoop
<1> DEFINE h == CHOOSE k : JoinedEquation(k, ops)
<1>9. JoinedEquation(h, ops)
  BY <1>8
<1>10. Joined(ops) = h[DOMAIN ops]
  BY DEF Joined, FoldLeft, MapThenFoldSet, JoinedEquation
<1> HIDE DEF h
<1> DEFINE c == [i \in 0..n |-> h[1..i]]
<1>11. c[0] = <<>>
  BY <1>1, <1>9, FirstTurns DEF JoinedEquation
<1>12. ASSUME NEW i \in 1..n PROVE c[i] = c[i - 1] \o OpFields(ops[i]) /\ OpFields(ops[i]) \in Seq(X)
  <2>1. PICK s : s = 1..i
    OBVIOUS
  <2>2. s \in SUBSET DOMAIN ops /\ s # {} /\ Max(s) = i /\ s \ {i} = 1..(i - 1)
    BY <1>1, <2>1, FirstTurns
  <2>3. h[s] = h[s \ {i}] \o OpFields(ops[i])
    BY <1>9, <2>2 DEF JoinedEquation
  <2>4. i \in 0..n /\ i - 1 \in 0..n
    BY <1>1
  <2>5. ops[i] \in B
    BY <1>6
  <2>6. QED BY <1>2, <2>1, <2>2, <2>3, <2>4, <2>5
<1>13. Joined(ops) = c[n]
  BY <1>1, <1>10
<1> HIDE DEF c
<1> DEFINE C == {i \in 0..n : c[i] \notin Seq(X)}
<1>14. C = {}
  <2>1. 0 \notin C
    BY <1>6, <1>11
  <2>2. ASSUME NEW i \in 1..n, i \in C PROVE i - 1 \in C
    <3>1. c[i] = c[i - 1] \o OpFields(ops[i]) /\ OpFields(ops[i]) \in Seq(X)
      BY <1>12
    <3>2. c[i - 1] \in Seq(X) => c[i] \in Seq(X)
      BY <3>1
    <3>3. i - 1 \in 0..n
      BY <1>1
    <3>4. QED BY <2>2, <3>2, <3>3
  <2>3. C \subseteq 0..n
    OBVIOUS
  <2> HIDE DEF C
  <2>4. QED BY <1>1, <2>1, <2>2, <2>3, NoFirstFailure
<1>15. Grows(c, ops, n, X)
  BY <1>11, <1>12, <1>14 DEF Grows
<1>16. QED BY <1>3, <1>13, <1>15

LEMMA LensAreLoop ==
  ASSUME NEW ops, IsOps(ops), NEW n, n = Len(ops)
  PROVE  \E d : /\ d[0] = 0 /\ \A i \in 1..n : d[i] = d[i - 1] + EncodedOpLen(ops[i])
                /\ LensOf(ops) = d[n]
<1>1. n \in Nat /\ ops = [i \in 1..n |-> ops[i]] /\ DOMAIN ops = 1..n /\ \A i \in 1..n : IsOp(ops[i])
  BY OpsAre
<1> DEFINE B == {ops[i] : i \in 1..n}
           step == [r \in Nat \X B |-> r[1] + EncodedOpLen(r[2])]
<1>2. \A op \in B : EncodedOpLen(op) \in Nat
  BY ZenonT(60), <1>1, OpFieldsAre
<1>3. step \in [Nat \X B -> Nat] /\ \A a \in Nat, op \in B : step[<<a, op>>] = a + EncodedOpLen(op)
  <2>1. \A a \in Nat, op \in B : a + EncodedOpLen(op) \in Nat
    BY <1>2
  <2>2. QED BY <2>1
<1>4. ops \in [1..n -> B] /\ 0 \in Nat
  BY <1>1
<1> HIDE DEF B, step
<1>5. PICK f : IsLoop(f, ops, 0, step, Nat, B)
  BY <1>1, <1>3, <1>4, LoopExists
<1>6. LensEquation(f, ops)
  <2>1. \A s \in SUBSET DOMAIN ops :
          s # {} => step[<<f[s \ {Max(s)}], ops[Max(s)]>>] = f[s \ {Max(s)}] + EncodedOpLen(ops[Max(s)])
    BY <1>3, <1>5 DEF IsLoop
  <2>2. QED BY <1>5, <2>1 DEF LensEquation, IsLoop
<1> DEFINE h == CHOOSE k : LensEquation(k, ops)
<1>7. LensEquation(h, ops)
  BY <1>6
<1>8. LensOf(ops) = h[DOMAIN ops]
  BY DEF LensOf, FoldLeft, MapThenFoldSet, LensEquation
<1> HIDE DEF h
<1> DEFINE d == [i \in 0..n |-> h[1..i]]
<1>9. d[0] = 0
  BY <1>1, <1>7, FirstTurns DEF LensEquation
<1>10. ASSUME NEW i \in 1..n PROVE d[i] = d[i - 1] + EncodedOpLen(ops[i])
  <2>1. PICK s : s = 1..i
    OBVIOUS
  <2>2. s \in SUBSET DOMAIN ops /\ s # {} /\ Max(s) = i /\ s \ {i} = 1..(i - 1)
    BY <1>1, <2>1, FirstTurns
  <2>3. h[s] = h[s \ {i}] + EncodedOpLen(ops[i])
    BY <1>7, <2>2 DEF LensEquation
  <2>4. i \in 0..n /\ i - 1 \in 0..n
    BY <1>1
  <2>5. QED BY <2>1, <2>2, <2>3, <2>4
<1>11. LensOf(ops) = d[n]
  BY <1>1, <1>8
<1>12. QED BY <1>9, <1>10, <1>11

\* The fields of operation i are those of J after its first k[i - 1].
LaidOut(J, k, ops, n) ==
  /\ k[0] = 0 /\ k[n] = Len(J) /\ \A i \in 0..n : k[i] \in 0..Len(J)
  /\ \A i \in 1..n : /\ k[i] = k[i - 1] + OpSize(ops[i])
                     /\ \A j \in 1..OpSize(ops[i]) : J[k[i - 1] + j] = OpFields(ops[i])[j]

LEMMA OpsLaidOut ==
  ASSUME NEW ops, IsOps(ops), NEW n, n = Len(ops), NEW J, J = Joined(ops)
  PROVE  /\ \E k : LaidOut(J, k, ops, n)
         /\ \E X : Widths(X) /\ J \in Seq(X)
         /\ Bytes(J) = LensOf(ops) /\ Bytes(J) \in Nat
<1>1. n \in Nat /\ ops = [i \in 1..n |-> ops[i]] /\ DOMAIN ops = 1..n /\ \A i \in 1..n : IsOp(ops[i])
  BY OpsAre
<1>2. PICK c, X : Widths(X) /\ Grows(c, ops, n, X) /\ J = c[n]
  BY JoinedIsLoop
<1>3. /\ c[0] = <<>> /\ \A i \in 0..n : c[i] \in Seq(X)
      /\ \A i \in 1..n : c[i] = c[i - 1] \o OpFields(ops[i]) /\ OpFields(ops[i]) \in Seq(X)
  BY <1>2 DEF Grows
<1>4. \A i \in 1..n : /\ Len(OpFields(ops[i])) = OpSize(ops[i]) /\ OpSize(ops[i]) \in Nat
                      /\ Bytes(OpFields(ops[i])) = EncodedOpLen(ops[i])
                      /\ Bytes(OpFields(ops[i])) \in Nat
  <2>1. \A op : OpSize(op) \in Nat
    BY DEF OpSize
  <2>2. QED BY <1>1, <2>1, OpFieldsAre
<1>5. ASSUME NEW i \in 1..n
      PROVE  /\ Len(c[i]) = Len(c[i - 1]) + OpSize(ops[i])
             /\ \A j \in 1..Len(c[i - 1]) : c[i][j] = c[i - 1][j]
             /\ \A j \in 1..OpSize(ops[i]) : c[i][Len(c[i - 1]) + j] = OpFields(ops[i])[j]
             /\ Bytes(c[i]) = Bytes(c[i - 1]) + EncodedOpLen(ops[i])
             /\ Bytes(c[i - 1]) \in Nat /\ EncodedOpLen(ops[i]) \in Nat
  <2>1. i - 1 \in 0..n
    BY <1>1
  <2>2. PICK a, f : a = c[i - 1] /\ f = OpFields(ops[i])
    OBVIOUS
  <2>3. a \in Seq(X) /\ f \in Seq(X) /\ c[i] = a \o f
    BY <1>3, <2>1, <2>2
  <2>4. /\ Len(a \o f) = Len(a) + Len(f)
        /\ \A j \in 1..Len(a) : (a \o f)[j] = a[j]
        /\ \A j \in 1..Len(f) : (a \o f)[Len(a) + j] = f[j]
    BY <2>3, JoinIs
  <2>5. Bytes(a \o f) = Bytes(a) + Bytes(f) /\ Bytes(a) \in Nat
    BY <1>2, <2>3, BytesJoin
  <2>6. Len(f) = OpSize(ops[i]) /\ Bytes(f) = EncodedOpLen(ops[i]) /\ Bytes(f) \in Nat
    BY <1>4, <2>2
  <2>7. QED BY <2>2, <2>3, <2>4, <2>5, <2>6
<1>6. \A i \in 0..n : Len(c[i]) \in Nat
  BY <1>3
\* what is there stays where it is
<1>7. ASSUME NEW i \in 0..n
      PROVE  Len(c[i]) <= Len(J) /\ \A j \in 1..Len(c[i]) : J[j] = c[i][j]
  <2> DEFINE Kept(m) == Len(c[i]) <= Len(c[m]) /\ \A j \in 1..Len(c[i]) : c[m][j] = c[i][j]
             C == {m \in 0..n : m >= i /\ ~ Kept(m)}
  <2>1. Kept(i)
    BY <1>6
  <2>2. 0 \notin C
    BY <2>1
  <2>3. ASSUME NEW m \in 1..n, m \in C PROVE m - 1 \in C
    <3>1. m >= i /\ m # i /\ ~ Kept(m)
      BY <2>1, <2>3
    <3>2. m - 1 >= i /\ m - 1 \in 0..n /\ m \in 0..n
      BY <1>1, <3>1
    <3>3. Kept(m - 1) => Kept(m)
      <4> SUFFICES ASSUME Kept(m - 1) PROVE Kept(m)
        OBVIOUS
      <4>1. Len(c[i]) \in Nat /\ Len(c[m]) \in Nat /\ Len(c[m - 1]) \in Nat
        BY <1>6, <3>2
      <4>2. OpSize(ops[m]) \in Nat /\ Len(c[m]) = Len(c[m - 1]) + OpSize(ops[m])
        BY <1>4, <1>5
      <4>3. ASSUME NEW j \in 1..Len(c[i]) PROVE c[m][j] = c[i][j]
        <5>1. j \in 1..Len(c[m - 1])
          BY <4>1
        <5>2. c[m][j] = c[m - 1][j]
          BY <1>5, <5>1
        <5>3. QED BY <5>2
      <4>4. QED BY <4>1, <4>2, <4>3
    <3> HIDE DEF Kept
    <3>4. QED BY <3>1, <3>2, <3>3
  <2>4. C = {}
    <3>1. C \subseteq 0..n
      OBVIOUS
    <3> HIDE DEF C
    <3>2. QED BY <1>1, <2>2, <2>3, <3>1, NoFirstFailure
  <2>5. Kept(n)
    <3>1. n \in 0..n /\ n >= i
      BY <1>1
    <3> HIDE DEF Kept
    <3>2. QED BY <2>4, <3>1
  <2>6. QED BY <1>2, <2>5
<1> DEFINE k == [i \in 0..n |-> Len(c[i])]
<1>8. LaidOut(J, k, ops, n)
  <2>1. k[0] = 0 /\ k[n] = Len(J)
    BY <1>1, <1>2, <1>3
  <2>2. \A i \in 0..n : k[i] \in 0..Len(J)
    <3> SUFFICES ASSUME NEW i \in 0..n PROVE Len(c[i]) \in 0..Len(J)
      OBVIOUS
    <3>1. n \in 0..n
      BY <1>1
    <3>2. Len(J) \in Nat
      BY <1>2, <1>6, <3>1
    <3>3. QED BY <1>6, <1>7, <3>2
  <2>3. ASSUME NEW i \in 1..n
        PROVE  /\ k[i] = k[i - 1] + OpSize(ops[i])
               /\ \A j \in 1..OpSize(ops[i]) : J[k[i - 1] + j] = OpFields(ops[i])[j]
    <3>1. i - 1 \in 0..n /\ i \in 0..n
      BY <1>1
    <3>2. k[i] = Len(c[i]) /\ k[i - 1] = Len(c[i - 1])
      BY <3>1
    <3> HIDE DEF k
    <3>3. ASSUME NEW j \in 1..OpSize(ops[i]) PROVE J[k[i - 1] + j] = OpFields(ops[i])[j]
      <4>1. Len(c[i - 1]) + j \in 1..Len(c[i])
        <5>1. Len(c[i - 1]) \in Nat /\ OpSize(ops[i]) \in Nat /\ Len(c[i]) = Len(c[i - 1]) + OpSize(ops[i])
          BY <1>4, <1>5, <1>6, <3>1
        <5>2. QED BY <5>1
      <4>2. J[Len(c[i - 1]) + j] = c[i][Len(c[i - 1]) + j]
        BY <1>7, <3>1, <4>1
      <4>3. c[i][Len(c[i - 1]) + j] = OpFields(ops[i])[j]
        BY <1>5
      <4>4. QED BY <3>2, <4>2, <4>3
    <3>4. QED BY <1>5, <3>2, <3>3
  <2> HIDE DEF k
  <2>4. QED BY <2>1, <2>2, <2>3 DEF LaidOut
<1>9. J \in Seq(X)
  <2>1. n \in 0..n
    BY <1>1
  <2>2. QED BY <1>2, <1>3, <2>1
<1>10. Bytes(J) = LensOf(ops)
  <2>1. PICK d : /\ d[0] = 0 /\ \A i \in 1..n : d[i] = d[i - 1] + EncodedOpLen(ops[i])
                 /\ LensOf(ops) = d[n]
    BY LensAreLoop
  <2> DEFINE C == {i \in 0..n : Bytes(c[i]) # d[i]}
  <2>2. 0 \notin C
    BY <1>3, <2>1, BytesOfEmpty
  <2>3. ASSUME NEW i \in 1..n, i \in C PROVE i - 1 \in C
    <3>1. d[i] = d[i - 1] + EncodedOpLen(ops[i]) /\ Bytes(c[i]) = Bytes(c[i - 1]) + EncodedOpLen(ops[i])
      BY <1>5, <2>1
    <3>2. i - 1 \in 0..n
      BY <1>1
    <3>3. Bytes(c[i - 1]) = d[i - 1] => Bytes(c[i]) = d[i]
      BY <3>1
    <3>4. QED BY <2>3, <3>2, <3>3
  <2>4. C = {}
    <3>1. C \subseteq 0..n
      OBVIOUS
    <3> HIDE DEF C
    <3>2. QED BY <1>1, <2>2, <2>3, <3>1, NoFirstFailure
  <2>5. n \in 0..n
    BY <1>1
  <2>6. QED BY <1>2, <2>1, <2>4, <2>5
<1>11. Bytes(J) \in Nat
  <2>1. <<>> \in Seq(X)
    OBVIOUS
  <2>2. QED BY <1>2, <1>9, <2>1, BytesJoin
<1>12. QED BY <1>2, <1>8, <1>9, <1>10, <1>11

-------------------------------------------------------------------------------
(* Codec: frames of snapshots and their fragments *)

\* F is a, b, c, the fields of mid, num and the fields of J.
Framed(F, a, b, c, mid, num, J) ==
  /\ F[1] = a /\ F[2] = b /\ F[3] = c
  /\ \A j \in 1..Len(mid) : F[3 + j] = mid[j]
  /\ F[3 + Len(mid) + 1] = num
  /\ \A j \in 1..Len(J) : F[3 + Len(mid) + 1 + j] = J[j]
  /\ Len(F) = 3 + Len(mid) + 1 + Len(J)

LEMMA BytesAdd ==
  ASSUME NEW f, NEW h, NEW y, NEW m, NEW x, NEW o, NEW j, NEW u \in Nat, NEW v \in Nat,
         Joins(f, h, y), Joins(y, m, x), Joins(x, o, j), Bytes(h) = u, Bytes(o) = v
  PROVE  Bytes(f) = u + Bytes(m) + v + Bytes(j)
<1>1. PICK a \in Nat, b \in Nat : a = Bytes(m) /\ b = Bytes(j)
  BY DEF Joins
<1>2. Bytes(x) = v + b
  BY <1>1 DEF Joins
<1>3. Bytes(y) = a + (v + b)
  BY <1>1, <1>2 DEF Joins
<1>4. Bytes(f) = u + (a + (v + b))
  BY <1>3 DEF Joins
<1>5. QED BY <1>1, <1>4

FrameFields(a, b, c, mid, num, J) == <<a, b, c>> \o (mid \o (<<num>> \o J))

LEMMA FrameIs ==
  ASSUME NEW X, Widths(X), NEW a \in X, NEW b \in X, NEW c \in X, NEW num \in X,
         NEW mid \in Seq(X), NEW J \in Seq(X),
         NEW F, F = FrameFields(a, b, c, mid, num, J)
  PROVE  /\ F \in Seq(X) /\ Framed(F, a, b, c, mid, num, J)
         /\ Bytes(F) = a.width + b.width + c.width + Bytes(mid) + num.width + Bytes(J)
<1>1. PICK h, o, x, y : h = <<a, b, c>> /\ o = <<num>> /\ x = o \o J /\ y = mid \o x
  OBVIOUS
<1>2. /\ h \in Seq(X) /\ Len(h) = 3 /\ h[1] = a /\ h[2] = b /\ h[3] = c
      /\ o \in Seq(X) /\ Len(o) = 1 /\ o[1] = num
  BY <1>1
<1>3. x \in Seq(X) /\ Joins(x, o, J)
  BY <1>1, <1>2, JoinsAre
<1>4. y \in Seq(X) /\ Joins(y, mid, x)
  BY <1>1, <1>3, JoinsAre
<1>5. F = h \o y
  BY <1>1 DEF FrameFields
<1>6. F \in Seq(X) /\ Joins(F, h, y)
  BY <1>2, <1>4, <1>5, JoinsAre
<1>7. PICK m \in Nat, l \in Nat : m = Len(mid) /\ l = Len(J)
  OBVIOUS
<1>8. Len(x) = 1 + l /\ Len(y) = m + (1 + l) /\ Len(F) = 3 + (m + (1 + l))
  BY <1>2, <1>3, <1>4, <1>6, <1>7 DEF Joins
<1>9. F[1] = a /\ F[2] = b /\ F[3] = c
  <2>1. 1 \in 1..Len(h) /\ 2 \in 1..Len(h) /\ 3 \in 1..Len(h)
    BY <1>2
  <2>2. QED BY <1>2, <1>6, <2>1 DEF Joins
<1>10. ASSUME NEW j \in 1..m PROVE F[3 + j] = mid[j]
  <2>1. j \in 1..Len(y)
    BY <1>8
  <2>2. QED BY <1>2, <1>4, <1>6, <1>7, <2>1 DEF Joins
<1>11. F[3 + m + 1] = num
  <2>1. m + 1 \in 1..Len(y) /\ 1 \in 1..Len(x) /\ 3 + (m + 1) = 3 + m + 1 /\ 1 \in 1..Len(o)
    BY <1>2, <1>8
  <2>2. F[3 + (m + 1)] = y[m + 1] /\ y[m + 1] = x[1] /\ x[1] = o[1]
    BY <1>2, <1>3, <1>4, <1>6, <1>7, <2>1 DEF Joins
  <2>3. QED BY <1>2, <2>1, <2>2
<1>12. ASSUME NEW j \in 1..l PROVE F[3 + m + 1 + j] = J[j]
  <2>1. m + (1 + j) \in 1..Len(y) /\ 1 + j \in 1..Len(x) /\ 3 + (m + (1 + j)) = 3 + m + 1 + j
    BY <1>8
  <2>2. F[3 + (m + (1 + j))] = y[m + (1 + j)] /\ y[m + (1 + j)] = x[1 + j]
    BY <1>2, <1>4, <1>6, <1>7, <2>1 DEF Joins
  <2>3. x[1 + j] = J[j]
    BY <1>2, <1>3, <1>7 DEF Joins
  <2>4. QED BY <2>1, <2>2, <2>3
<1>13. Framed(F, a, b, c, mid, num, J)
  <2>1. Len(F) = 3 + m + 1 + l
    BY <1>8
  <2>2. QED BY <1>7, <1>9, <1>10, <1>11, <1>12, <2>1 DEF Framed
<1>14. Bytes(F) = a.width + b.width + c.width + Bytes(mid) + num.width + Bytes(J)
  <2>1. Bytes(h) = a.width + b.width + c.width /\ Bytes(o) = num.width
    BY <1>2, BytesOfFew
  <2>2. a.width \in Nat /\ b.width \in Nat /\ c.width \in Nat /\ num.width \in Nat
    BY DEF Widths
  <2>3. a.width + b.width + c.width \in Nat
    BY <2>2
  <2>4. PICK u \in Nat, v \in Nat : u = a.width + b.width + c.width /\ v = num.width
    BY <2>2, <2>3
  <2>5. Joins(F, h, y) /\ Joins(y, mid, x) /\ Joins(x, o, J) /\ Bytes(h) = u /\ Bytes(o) = v
    BY <1>3, <1>4, <1>6, <2>1, <2>4
  <2>6. Bytes(F) = u + Bytes(mid) + v + Bytes(J)
    BY ONLY <2>5, BytesAdd
  <2>7. QED BY ONLY <2>4, <2>6, Zenon
<1>15. QED BY <1>6, <1>13, <1>14

\* the fields between the header and the operations: sequence, baseline and, of a
\* fragment, its place
BaselineSize(baseline) == IF baseline = NoBaseline THEN 1 ELSE 2

BaselineAt(F, k, baseline) ==
  IF baseline = NoBaseline THEN F[k + 1] = Field(1, 0)
  ELSE F[k + 1] = Field(1, 1) /\ F[k + 2] = Field(8, baseline)

Middles(mid, more, sequence, baseline, index, count, X) ==
  /\ Widths(X) /\ mid \in Seq(X) /\ more \in Seq(X)
  /\ Len(mid) = 1 + BaselineSize(baseline) /\ Len(more) = Len(mid) + 2
  /\ mid[1] = Field(8, sequence) /\ BaselineAt(mid, 1, baseline)
  /\ \A i \in 1..Len(mid) : more[i] = mid[i]
  /\ more[Len(mid) + 1] = Field(2, index) /\ more[Len(mid) + 2] = Field(2, count)
  /\ Bytes(mid) = 8 + 1 + (IF baseline # NoBaseline THEN 8 ELSE 0)
  /\ Bytes(more) = Bytes(mid) + 4

LEMMA MiddleIs ==
  ASSUME NEW sequence, NEW baseline, NEW index, NEW count,
         NEW mid, mid = <<Field(8, sequence)>> \o BaselineFields(baseline),
         NEW more, more = mid \o <<Field(2, index), Field(2, count)>>
  PROVE  \E X : Middles(mid, more, sequence, baseline, index, count, X)
<1>1. PICK d, z, o, l, u, v :
        /\ d = Field(8, sequence) /\ z = Field(1, 0) /\ o = Field(1, 1) /\ l = Field(8, baseline)
        /\ u = Field(2, index) /\ v = Field(2, count)
  OBVIOUS
<1>2. d.width = 8 /\ z.width = 1 /\ o.width = 1 /\ l.width = 8 /\ u.width = 2 /\ v.width = 2
  BY <1>1 DEF Field
<1>3. PICK X : X = {d, z, o, l, u, v}
  OBVIOUS
<1>4. Widths(X)
  BY <1>2, <1>3 DEF Widths
<1>5. PICK s, t, w : s = <<d>> /\ t = BaselineFields(baseline) /\ w = <<u, v>>
  OBVIOUS
<1>6. /\ s \in Seq(X) /\ Len(s) = 1 /\ s[1] = d
      /\ w \in Seq(X) /\ Len(w) = 2 /\ w[1] = u /\ w[2] = v
  BY <1>3, <1>5
<1>7. /\ t \in Seq(X)
      /\ IF baseline = NoBaseline THEN Len(t) = 1 /\ t[1] = z
         ELSE Len(t) = 2 /\ t[1] = o /\ t[2] = l
  <2>1. t = IF baseline = NoBaseline THEN <<z>> ELSE <<o, l>>
    BY <1>1, <1>5 DEF BaselineFields
  <2>2. CASE baseline = NoBaseline
    BY <1>3, <2>1, <2>2
  <2>3. CASE baseline # NoBaseline
    BY <1>3, <2>1, <2>3
  <2>4. QED BY <2>2, <2>3
<1>8. mid = s \o t /\ more = mid \o w
  BY <1>1, <1>5
<1>9. mid \in Seq(X) /\ Joins(mid, s, t)
  BY <1>4, <1>6, <1>7, <1>8, JoinsAre
<1>10. more \in Seq(X) /\ Joins(more, mid, w)
  BY <1>4, <1>6, <1>8, <1>9, JoinsAre
<1>11. Len(mid) = 1 + BaselineSize(baseline)
  BY <1>6, <1>7, <1>9 DEF BaselineSize, Joins
<1>12. mid[1] = d
  BY <1>6, <1>9 DEF Joins
<1>13. BaselineAt(mid, 1, baseline)
  <2>1. 1 + 1 = 2 /\ 1 + 2 = 3 /\ 1 \in 1..Len(t) /\ (baseline # NoBaseline => 2 \in 1..Len(t))
    BY <1>7
  <2>2. mid[1 + 1] = t[1] /\ (baseline # NoBaseline => mid[1 + 2] = t[2])
    BY <1>6, <1>9, <2>1 DEF Joins
  <2>3. QED BY <1>1, <1>7, <2>2 DEF BaselineAt
<1>14. more[Len(mid) + 1] = u /\ more[Len(mid) + 2] = v /\ Len(more) = Len(mid) + 2
  <2>1. 1 \in 1..Len(w) /\ 2 \in 1..Len(w)
    BY <1>6
  <2>2. QED BY <1>6, <1>10, <2>1 DEF Joins
<1>15. Bytes(mid) = 8 + 1 + (IF baseline # NoBaseline THEN 8 ELSE 0) /\ Bytes(mid) \in Nat
  <2>1. Bytes(s) = 8
    BY <1>2, <1>4, <1>6, BytesOfFew
  <2>2. Bytes(t) = IF baseline # NoBaseline THEN 9 ELSE 1
    <3>1. CASE baseline = NoBaseline
      BY <1>2, <1>4, <1>7, <3>1, BytesOfFew
    <3>2. CASE baseline # NoBaseline
      <4>1. Bytes(t) = t[1].width + t[2].width
        BY <1>4, <1>7, <3>2, BytesOfFew
      <4>2. QED BY <1>2, <1>7, <3>2, <4>1
    <3>3. QED BY <3>1, <3>2
  <2>3. Bytes(mid) = Bytes(s) + Bytes(t)
    BY <1>9 DEF Joins
  <2>4. QED BY <2>1, <2>2, <2>3
<1>16. Bytes(more) = Bytes(mid) + 4
  <2>1. Bytes(w) = 4
    <3>1. Bytes(w) = w[1].width + w[2].width
      BY <1>4, <1>6, BytesOfFew
    <3>2. QED BY <1>2, <1>6, <3>1
  <2>2. QED BY <1>10, <2>1 DEF Joins
<1>17. QED BY <1>1, <1>4, <1>9, <1>10, <1>11, <1>12, <1>13, <1>14, <1>15, <1>16 DEF Joins, Middles

-------------------------------------------------------------------------------
(* Codec: reading what was written *)

\* r is at place k of F, has read `read` and knows what was last.
At(r, F, k, read, ops, V) ==
  /\ r = ReaderAt(F, k, read, ops) /\ k \in 0..Len(F) /\ read \in Seq(V) /\ ~ Failed(r)

\* what the fields of F may give a reader
Gives(F, S, V) ==
  /\ F \in Seq(S) /\ \A field \in S : field.value \in V
  /\ <<>> \in V /\ NoBaseline \in V

LEMMA CursorIs ==
  ASSUME NEW F, NEW k, NEW read, NEW ops
  PROVE  /\ ~ Failed(ReaderAt(F, k, read, ops))
         /\ LastRead(ReaderAt(F, k, read, ops)) = Last(read)
         /\ Unread(ReaderAt(F, k, read, ops)) = ReaderAt(F, k, Front(read), ops)
<1>1. PICK error : error = "UnexpectedEof"
  OBVIOUS
<1>2. error # NoError
  BY <1>1 DEF NoError
<1>3. /\ ~ Failed(ReaderAt(F, k, read, ops))
      /\ Failed(Fail(ReaderAt(F, k, read, ops), error))
      /\ LastRead(ReaderAt(F, k, read, ops)) = Last(read)
      /\ Unread(ReaderAt(F, k, read, ops)) = ReaderAt(F, k, Front(read), ops)
  BY <1>2, CursorOf
<1>4. QED BY <1>3

LEMMA NextRead ==
  ASSUME NEW F, NEW S, NEW V, Gives(F, S, V), NEW r, NEW k, NEW read, NEW ops,
         At(r, F, k, read, ops, V), NEW m, m = k + 1, m <= Len(F), NEW w, w # 0, F[m].width = w,
         NEW v, v = F[m].value, NEW q, q = ReadExact(r, w)
  PROVE  /\ At(q, F, m, Append(read, v), ops, V)
         /\ LastRead(q) = v /\ At(Unread(q), F, m, read, ops, V) /\ v \in V
         /\ LastRead(Unread(q)) = Last(read)
<1>1. F \in Seq(S) /\ k \in 0..Len(F) /\ k < Len(F) /\ m \in 1..Len(F) /\ r = ReaderAt(F, k, read, ops)
  BY DEF Gives, At
<1>2. q = ReaderAt(F, m, Append(read, v), ops)
  BY <1>1, ReadsNext
<1>3. v \in V
  BY <1>1 DEF Gives
<1>4. /\ Append(read, v) \in Seq(V)
      /\ Last(Append(read, v)) = v /\ Front(Append(read, v)) = read /\ read \in Seq(V)
      /\ Last(Front(Append(read, v))) = Last(read)
  BY <1>3, LastUnread DEF At
<1>6. ~ Failed(q) /\ LastRead(q) = v /\ Unread(q) = ReaderAt(F, m, read, ops)
  BY <1>2, <1>4, CursorIs
<1>7. ~ Failed(ReaderAt(F, m, read, ops)) /\ LastRead(Unread(q)) = Last(read)
  BY <1>6, CursorIs
<1>8. m \in 0..Len(F)
  BY <1>1
<1>9. QED BY <1>2, <1>3, <1>4, <1>6, <1>7, <1>8 DEF At

\* nothing is read of a payload without bytes
LEMMA NothingRead ==
  ASSUME NEW F, NEW S, NEW V, Gives(F, S, V), NEW r, NEW k, NEW read, NEW ops,
         At(r, F, k, read, ops, V), NEW q, q = ReadExact(r, 0)
  PROVE  /\ At(q, F, k, Append(read, <<>>), ops, V) /\ LastRead(q) = <<>>
<1>1. PICK none, m : none = <<>> /\ m = k + 1
  OBVIOUS
<1>2. F \in Seq(S) /\ k \in 0..Len(F) /\ none \in V /\ read \in Seq(V) /\ r = ReaderAt(F, k, read, ops)
  BY <1>1 DEF Gives, At
<1>3. q = ReaderAt(F, k, Append(read, none), ops)
  BY <1>1, <1>2, ReadsNext
<1>4. Append(read, none) \in Seq(V) /\ Last(Append(read, none)) = none
  BY <1>2, LastUnread
<1>6. ~ Failed(q) /\ LastRead(q) = none
  BY <1>3, <1>4, CursorIs
<1>7. QED BY <1>1, <1>2, <1>3, <1>4, <1>6 DEF At

\* A payload is read whole; the Rust reader first looks whether it may be so large.
LEMMA PayloadRead ==
  ASSUME NEW F, NEW S, NEW V, Gives(F, S, V), NEW r, NEW k, NEW read, NEW ops,
         At(r, F, k, read, ops, V), NEW p, IsPayload(p),
         F[k + 1] = Field(4, Bytes(p)), p # <<>> => F[k + 2] = Field(Bytes(p), p),
         NEW z, z = k + (IF p = <<>> THEN 1 ELSE 2), z <= Len(F),
         NEW len, len = ReadExact(r, 4), NEW q, q = ReadExact(Unread(len), LastRead(len))
  PROVE  /\ At(q, F, z, Append(read, p), ops, V) /\ LastRead(q) = p
         /\ IF Bytes(p) <= MaxPayloadLen THEN ReadBytes(r) = q
            ELSE Failed(ReadBytes(r)) /\ ReadBytes(r).error = "PayloadTooLarge"
<1>1. PICK m, b : m = k + 1 /\ b = Bytes(p)
  OBVIOUS
<1>2. k \in Nat /\ m \in Nat /\ m <= Len(F) /\ F[m] = Field(4, b) /\ Len(F) \in Nat
  <2>1. k \in 0..Len(F) /\ F \in Seq(S)
    BY DEF At, Gives
  <2>2. QED BY <1>1, <2>1
<1>3. F[m].width = 4 /\ F[m].value = b
  BY <1>2 DEF Field
<1>4. b \in Nat /\ (p # <<>> <=> b # 0)
  BY <1>1, BytesFieldsAre
<1>5. LastRead(len) = b /\ At(Unread(len), F, m, read, ops, V) /\ ~ Failed(len)
      /\ len = ReaderAt(F, m, Append(read, b), ops)
  <2>1. At(len, F, m, Append(read, b), ops, V) /\ LastRead(len) = b /\ At(Unread(len), F, m, read, ops, V)
    BY <1>1, <1>2, <1>3, NextRead
  <2>2. QED BY <2>1 DEF At
<1>6. q = ReadExact(Unread(len), b)
  BY <1>5
<1>7. At(q, F, z, Append(read, p), ops, V) /\ LastRead(q) = p
  <2>1. CASE p = <<>>
    <3>1. b = 0 /\ z = m
      BY <1>1, <1>4, <2>1
    <3>2. PICK u : u = Unread(len) /\ At(u, F, m, read, ops, V) /\ q = ReadExact(u, 0)
      BY <1>5, <1>6, <3>1
    <3>3. At(q, F, m, Append(read, <<>>), ops, V) /\ LastRead(q) = <<>>
      BY <3>2, NothingRead
    <3>4. QED BY <2>1, <3>1, <3>3
  <2>2. CASE p # <<>>
    <3>1. b # 0 /\ z = m + 1 /\ z <= Len(F)
      BY <1>1, <1>2, <1>4, <2>2
    <3>2. F[z] = Field(b, p)
      <4>1. z = k + 2
        BY <2>2
      <4>2. QED BY <1>1, <2>2, <4>1
    <3>3. F[z].width = b /\ F[z].value = p
      BY <3>2 DEF Field
    <3>4. PICK u : u = Unread(len) /\ At(u, F, m, read, ops, V) /\ q = ReadExact(u, b)
      BY <1>5, <1>6
    <3>5. At(q, F, z, Append(read, p), ops, V) /\ LastRead(q) = p
      BY <3>1, <3>3, <3>4, NextRead
    <3>6. QED BY <3>5
  <2>3. QED BY <2>1, <2>2
<1>8. IF b <= MaxPayloadLen THEN ReadBytes(r) = q
      ELSE Failed(ReadBytes(r)) /\ ReadBytes(r).error = "PayloadTooLarge"
  <2> DEFINE ok == Check(len, LastRead(len) <= MaxPayloadLen, "PayloadTooLarge")
  <2>1. ReadBytes(r) = IF Failed(ok) THEN ok ELSE ReadExact(Unread(ok), LastRead(ok))
    BY DEF ReadBytes
  <2>2. ok = IF b <= MaxPayloadLen THEN len ELSE Fail(len, "PayloadTooLarge")
    BY <1>5 DEF Check
  <2> HIDE DEF ok
  <2>3. CASE b <= MaxPayloadLen
    BY <1>5, <1>6, <2>1, <2>2, <2>3
  <2>4. CASE ~ (b <= MaxPayloadLen)
    <3>1. "PayloadTooLarge" # NoError
      BY DEF NoError
    <3>2. Failed(ok) /\ ok.error = "PayloadTooLarge"
      <4>1. ok = Fail(Reader(SubSeq(F, m + 1, Len(F)), Append(read, b), ops), "PayloadTooLarge")
        BY <1>5, <2>2, <2>4 DEF ReaderAt
      <4>2. QED BY <3>1, <4>1, ReaderOf
    <3>3. QED BY <2>1, <2>4, <3>2
  <2>5. QED BY <2>3, <2>4
<1>9. QED BY <1>1, <1>7, <1>8

-------------------------------------------------------------------------------
(* Codec: reading operations *)

Extends(more, read) == Len(read) <= Len(more) /\ \A i \in 1..Len(read) : more[i] = read[i]

LEMMA AppendExtends ==
  ASSUME NEW V, NEW read \in Seq(V), NEW v \in V
  PROVE  Append(read, v) \in Seq(V) /\ Extends(Append(read, v), read)
<1>0. PICK n \in Nat : n = Len(read)
  OBVIOUS
<1>1. PICK more : n = Len(read) /\ more = Append(read, v)
  BY <1>0
<1>2. more \in Seq(V) /\ Len(more) = n + 1 /\ \A i \in 1..n : more[i] = read[i]
  BY <1>1
<1>3. n <= n + 1
  BY <1>1
<1>4. QED BY <1>1, <1>2, <1>3 DEF Extends

LEMMA ExtendsTransitive ==
  ASSUME NEW V, NEW a \in Seq(V), NEW b \in Seq(V), NEW c \in Seq(V), Extends(b, a), Extends(c, b)
  PROVE  Extends(c, a)
<1>1. PICK n \in Nat, m \in Nat, l \in Nat : n = Len(a) /\ m = Len(b) /\ l = Len(c)
  OBVIOUS
<1>2. n <= m /\ m <= l /\ (\A i \in 1..n : b[i] = a[i]) /\ (\A i \in 1..m : c[i] = b[i])
  BY <1>1 DEF Extends
<1>3. n <= l /\ \A i \in 1..n : i \in 1..m
  BY <1>2
<1>4. QED BY <1>1, <1>2, <1>3 DEF Extends

TooLarge(op) == HasPayload(op) /\ ~ (Bytes(op.payload) <= MaxPayloadLen)

LEMMA OpTaken ==
  ASSUME NEW F, NEW S, NEW V, NEW r, NEW k, NEW read, NEW acc, At(r, F, k, read, acc, V), NEW op
  PROVE  At([r EXCEPT !.ops = Append(@, op)], F, k, read, Append(acc, op), V)
<1>1. PICK rest : rest = SubSeq(F, k + 1, Len(F))
  OBVIOUS
<1>2. r = Reader(rest, read, acc) /\ k \in 0..Len(F) /\ read \in Seq(V)
  BY <1>1 DEF At, ReaderAt
<1>3. r.ops = acc
  BY <1>2 DEF Reader
<1>4. PICK more, q : more = Append(acc, op) /\ q = [r EXCEPT !.ops = more]
  OBVIOUS
<1>5. q = Reader(rest, read, more)
  BY <1>2, <1>4 DEF Reader
<1>6. q = ReaderAt(F, k, read, more)
  BY <1>1, <1>5 DEF ReaderAt
<1>7. At(q, F, k, read, more, V)
  BY <1>2, <1>6, CursorIs DEF At
<1>8. QED BY <1>3, <1>4, <1>7, Zenon

LEMMA OpRead ==
  ASSUME NEW F, NEW S, NEW V, Gives(F, S, V), NEW r, NEW k, NEW read, NEW acc,
         At(r, F, k, read, acc, V), NEW op, IsOp(op),
         \A j \in 1..OpSize(op) : F[k + j] = OpFields(op)[j],
         NEW z, z = k + OpSize(op), z <= Len(F)
  PROVE  /\ \E more : Extends(more, read) /\ At(GodotOp(r), F, z, more, Append(acc, op), V)
         /\ IF TooLarge(op) THEN Failed(ReadOp(r)) /\ ReadOp(r).error = "PayloadTooLarge"
            ELSE ReadOp(r) = GodotOp(r)
<1>1. PICK f : f = OpFields(op)
  OBVIOUS
<1>2. /\ f[1] = Field(1, OpTag[op.op]) /\ f[2] = Field(8, op.entity)
      /\ HasPayload(op) => /\ IsPayload(op.payload) /\ f[3] = Field(4, Bytes(op.payload))
                           /\ op.payload # <<>> => f[4] = Field(Bytes(op.payload), op.payload)
  BY <1>1, OpFieldsAre
<1>3. k \in Nat /\ Len(F) \in Nat /\ read \in Seq(V)
  BY DEF At, Gives
<1>4. OpSize(op) \in {2, 3, 4} /\ (HasPayload(op) => OpSize(op) \in {3, 4})
  BY DEF OpSize
<1>5. PICK a, b, t, e : a = k + 1 /\ b = a + 1 /\ t = OpTag[op.op] /\ e = op.entity
  OBVIOUS
<1>6. a <= Len(F) /\ b <= Len(F) /\ b = k + 2 /\ 1 \in 1..OpSize(op) /\ 2 \in 1..OpSize(op)
  BY <1>3, <1>4, <1>5
<1>7. F[a] = Field(1, t) /\ F[b] = Field(8, e)
  BY <1>1, <1>2, <1>5, <1>6
<1>8. F[a].width = 1 /\ F[a].value = t /\ F[b].width = 8 /\ F[b].value = e
  BY <1>7 DEF Field
<1> DEFINE one == ReadExact(r, 1)
           head == ReadExact(one, 8)
           read1 == Append(read, t)
           read2 == Append(read1, e)
           len == ReadExact(head, 4)
           body == ReadExact(Unread(len), LastRead(len))
<1>9. At(one, F, a, read1, acc, V) /\ LastRead(one) = t /\ t \in V
  BY <1>5, <1>6, <1>8, NextRead
<1>10. /\ At(head, F, b, read2, acc, V) /\ LastRead(head) = e /\ e \in V
       /\ LastRead(Unread(head)) = Last(read1)
  <2> HIDE DEF one, read1
  <2> QED BY <1>5, <1>6, <1>8, <1>9, NextRead
<1>11. Last(read1) = t /\ read1 \in Seq(V) /\ read2 \in Seq(V) /\ Extends(read2, read)
  <2>1. Last(read1) = t
    BY <1>3, <1>9, LastUnread
  <2>2. read1 \in Seq(V) /\ Extends(read1, read)
    BY <1>3, <1>9, AppendExtends
  <2> HIDE DEF read1
  <2>3. read2 \in Seq(V) /\ Extends(read2, read1)
    BY <1>10, <2>2, AppendExtends
  <2>4. QED BY <1>3, <2>1, <2>2, <2>3, ExtendsTransitive
<1>12. ~ Failed(head)
  BY <1>10 DEF At
<1> DEFINE write == WriteOp(IF t = 1 THEN "SpawnOrEnter" ELSE "Update", e, LastRead(body))
           took == ReadBytes(head)
           wrote == WriteOp(IF t = 1 THEN "SpawnOrEnter" ELSE "Update", e, LastRead(took))
<1>13. GodotOp(r) = CASE t \in {1, 2} -> [body EXCEPT !.ops = Append(@, write)]
                      [] t = 3 -> [head EXCEPT !.ops = Append(@, DespawnOp(e))]
                      [] OTHER -> Fail(head, "unknown op")
  BY <1>10, <1>11, <1>12 DEF GodotOp
<1>14. ReadOp(r) = CASE t = 3 -> [head EXCEPT !.ops = Append(@, DespawnOp(e))]
                     [] t \in {1, 2} -> IF Failed(took) THEN took
                                        ELSE [took EXCEPT !.ops = Append(@, wrote)]
                     [] OTHER -> Fail(head, "UnknownDeltaOpTag")
  BY <1>10, <1>11, <1>12 DEF ReadOp
<1> HIDE DEF one, head, read1, read2
<1>15. CASE ~ HasPayload(op)
  <2>1. op = DespawnOp(e) /\ t = 3
    BY <1>5, <1>15 DEF IsOp, HasPayload, DespawnOp, OpTag
  <2>2. GodotOp(r) = [head EXCEPT !.ops = Append(@, op)] /\ ReadOp(r) = GodotOp(r)
    BY <1>13, <1>14, <2>1
  <2>3. z = b
    BY <1>3, <1>6, <1>15 DEF OpSize
  <2>4. At(GodotOp(r), F, z, read2, Append(acc, op), V)
    BY <1>10, <2>2, <2>3, OpTaken
  <2>5. QED BY <1>11, <1>15, <2>2, <2>4 DEF TooLarge
<1>16. CASE HasPayload(op)
  <2>1. PICK p : p = op.payload
    OBVIOUS
  <2>2. /\ t \in {1, 2} /\ ~ (t = 3)
        /\ op = WriteOp(IF t = 1 THEN "SpawnOrEnter" ELSE "Update", e, p) /\ IsPayload(p)
    <3>1. op = WriteOp(op.op, e, p) /\ op.op \in {"SpawnOrEnter", "Update"} /\ IsPayload(p)
      BY <1>5, <1>16, <2>1 DEF IsOp, HasPayload, DespawnOp
    <3>2. t = IF op.op = "SpawnOrEnter" THEN 1 ELSE 2
      BY <1>5, <3>1 DEF OpTag
    <3>3. QED BY <3>1, <3>2
  <2>3. /\ F[b + 1] = Field(4, Bytes(p)) /\ (p # <<>> => F[b + 2] = Field(Bytes(p), p))
        /\ z = b + (IF p = <<>> THEN 1 ELSE 2)
    <3>1. OpSize(op) = IF p = <<>> THEN 3 ELSE 4
      BY <1>16, <2>1 DEF OpSize
    <3>2. b + 1 = k + 3 /\ b + 2 = k + 4 /\ 3 \in 1..OpSize(op) /\ (p # <<>> => 4 \in 1..OpSize(op))
      BY <1>3, <1>6, <3>1
    <3>3. F[k + 3] = f[3] /\ (p # <<>> => F[k + 4] = f[4])
      BY <1>1, <3>2
    <3>4. z = b + (IF p = <<>> THEN 1 ELSE 2)
      <4>1. CASE p = <<>>
        BY <1>3, <1>6, <3>1, <4>1
      <4>2. CASE p # <<>>
        BY <1>3, <1>6, <3>1, <4>2
      <4>3. QED BY <4>1, <4>2
    <3>5. QED BY <1>2, <1>16, <2>1, <3>2, <3>3, <3>4
  <2> DEFINE read3 == Append(read2, p)
  <2>4. /\ At(body, F, z, read3, acc, V) /\ LastRead(body) = p
        /\ IF Bytes(p) <= MaxPayloadLen THEN took = body
           ELSE Failed(took) /\ took.error = "PayloadTooLarge"
    BY <1>10, <2>2, <2>3, PayloadRead
  <2> HIDE DEF body, took
  <2>5. write = op
    BY <2>2, <2>4
  <2>6. At(GodotOp(r), F, z, read3, Append(acc, op), V)
    <3>1. GodotOp(r) = [body EXCEPT !.ops = Append(@, op)]
      BY <1>13, <2>2, <2>5
    <3>2. QED BY <2>4, <3>1, OpTaken
  <2>7. Extends(read3, read)
    <3>1. p \in V
      <4>1. p = <<>> => p \in V
        BY DEF Gives
      <4>2. ASSUME p # <<>> PROVE p \in V
        <5>1. b + 2 \in 1..Len(F) /\ F[b + 2].value = p
          BY <1>3, <1>6, <2>3, <4>2 DEF Field
        <5>2. QED BY <5>1 DEF Gives
      <4>3. QED BY <4>1, <4>2
    <3>2. read3 \in Seq(V) /\ Extends(read3, read2)
      BY <1>11, <3>1, AppendExtends
    <3> HIDE DEF read3
    <3>3. QED BY <1>3, <1>11, <3>2, ExtendsTransitive
  <2>8. CASE Bytes(p) <= MaxPayloadLen
    <3>1. took = body /\ ~ Failed(body)
      BY <2>4, <2>8 DEF At
    <3>2. wrote = op
      BY <2>5, <3>1
    <3>3. ReadOp(r) = [body EXCEPT !.ops = Append(@, op)]
      BY <1>14, <2>2, <3>1, <3>2
    <3>4. GodotOp(r) = [body EXCEPT !.ops = Append(@, op)]
      BY <1>13, <2>2, <2>5
    <3>5. ~ TooLarge(op)
      BY <2>1, <2>8 DEF TooLarge
    <3>6. QED BY <2>6, <2>7, <3>3, <3>4, <3>5
  <2>9. CASE ~ (Bytes(p) <= MaxPayloadLen)
    <3>1. Failed(took) /\ took.error = "PayloadTooLarge"
      BY <2>4, <2>9
    <3>2. ReadOp(r) = took
      BY <1>14, <2>2, <3>1
    <3>3. QED BY <1>16, <2>1, <2>6, <2>7, <2>9, <3>1, <3>2 DEF TooLarge
  <2>10. QED BY <2>8, <2>9
<1>17. QED BY <1>15, <1>16

-------------------------------------------------------------------------------
(* Codec: as many operations as counted *)

GodotOpRun(g, r, n) == g[0] = r /\ \A i \in 1..n : g[i] = GodotOp(g[i - 1])
GodotOpEquation(f, r, n) ==
  f = [s \in SUBSET (1..n) |-> IF s = {} THEN r ELSE GodotOp(f[s \ {Max(s)}])]

LEMMA GodotOpRuns ==
  ASSUME NEW n \in Nat, NEW r
  PROVE  \E g : GodotOpRun(g, r, n)
<1> DEFINE Has(i) == \E g : GodotOpRun(g, r, i)
           C == {i \in 0..n : ~ Has(i)}
<1>1. Has(0)
  <2> DEFINE g == [i \in {0} |-> r]
  <2>1. GodotOpRun(g, r, 0)
    BY DEF GodotOpRun
  <2> HIDE DEF g
  <2>2. QED BY <2>1
<1>2. ASSUME NEW i \in 1..n, Has(i - 1) PROVE Has(i)
  <2>1. PICK g : GodotOpRun(g, r, i - 1)
    BY <1>2
  <2> DEFINE h == [j \in 0..i |-> IF j = i THEN GodotOp(g[i - 1]) ELSE g[j]]
  <2>2. h[0] = r
    BY <2>1 DEF GodotOpRun
  <2>3. ASSUME NEW j \in 1..i PROVE h[j] = GodotOp(h[j - 1])
    <3>1. j - 1 \in 0..i /\ j - 1 # i /\ j \in 0..i
      OBVIOUS
    <3>2. h[j - 1] = g[j - 1]
      BY <3>1
    <3>3. CASE j = i
      BY <3>1, <3>2, <3>3
    <3>4. CASE j # i
      <4>1. j \in 1..(i - 1)
        BY <3>4
      <4>2. g[j] = GodotOp(g[j - 1])
        BY <2>1, <4>1 DEF GodotOpRun
      <4>3. h[j] = g[j]
        BY <3>1, <3>4
      <4> HIDE DEF h
      <4>4. QED BY <3>2, <4>2, <4>3
    <3>5. QED BY <3>3, <3>4
  <2> HIDE DEF h
  <2>4. GodotOpRun(h, r, i)
    BY <2>2, <2>3 DEF GodotOpRun
  <2>5. QED BY <2>4
<1> HIDE DEF Has
<1>3. C = {}
  <2>1. C \subseteq 0..n /\ 0 \notin C
    BY <1>1
  <2>2. ASSUME NEW i \in 1..n, i \in C PROVE i - 1 \in C
    <3>1. i - 1 \in 0..n
      OBVIOUS
    <3>2. QED BY <1>2, <2>2, <3>1
  <2> HIDE DEF C
  <2>3. QED BY <2>1, <2>2, NoFirstFailure
<1>4. n \in 0..n
  OBVIOUS
<1>5. Has(n)
  BY <1>3, <1>4
<1>6. QED BY <1>5 DEF Has

LEMMA GodotOpsAreRun ==
  ASSUME NEW n \in Nat, NEW r
  PROVE  \E g : GodotOpRun(g, r, n) /\ FoldLeft(LAMBDA s, m : GodotOp(s), r, [m \in 1..n |-> m]) = g[n]
<1>1. PICK g : GodotOpRun(g, r, n)
  BY GodotOpRuns
<1> DEFINE f == [s \in SUBSET (1..n) |-> g[Cardinality(s)]]
<1>2. GodotOpEquation(f, r, n)
  <2>1. ASSUME NEW s \in SUBSET (1..n), s # {} PROVE f[s] = GodotOp(f[s \ {Max(s)}])
    <3>1. PICK m : m = Max(s) /\ m \in s /\ s \ {m} \in SUBSET (1..n)
      BY <2>1, LargestInPart
    <3>2. IsFiniteSet(1..n) /\ Cardinality(1..n) = n
      BY FS_Interval
    <3>3. IsFiniteSet(s) /\ Cardinality(s) \in Nat /\ Cardinality(s) <= n
      BY <3>2, FS_Subset, FS_CardinalityType
    <3>4. Cardinality(s \ {m}) = Cardinality(s) - 1
      BY <3>1, <3>3, FS_RemoveElement
    <3>5. Cardinality(s) # 0
      BY <2>1, <3>3, FS_EmptySet
    <3>6. PICK c \in 1..n : c = Cardinality(s) /\ c - 1 = Cardinality(s \ {m})
      BY <3>3, <3>4, <3>5
    <3>7. f[s] = g[c] /\ f[s \ {m}] = g[c - 1]
      BY <3>1, <3>6
    <3> HIDE DEF f
    <3>8. QED BY <1>1, <3>1, <3>7 DEF GodotOpRun
  <2>2. f[{}] = r
    <3>1. f[{}] = g[Cardinality({})]
      OBVIOUS
    <3>2. QED BY <1>1, <3>1, FS_EmptySet DEF GodotOpRun
  <2>3. f = [s \in SUBSET (1..n) |-> f[s]]
    OBVIOUS
  <2> HIDE DEF f
  <2>4. \A s \in SUBSET (1..n) : f[s] = IF s = {} THEN r ELSE GodotOp(f[s \ {Max(s)}])
    BY <2>1, <2>2
  <2>5. f = [s \in SUBSET (1..n) |-> IF s = {} THEN r ELSE GodotOp(f[s \ {Max(s)}])]
    BY <2>3, <2>4
  <2>6. QED BY <2>5 DEF GodotOpEquation
<1> HIDE DEF f
<1> DEFINE h == CHOOSE k : GodotOpEquation(k, r, n)
           turns == [m \in 1..n |-> m]
<1>3. GodotOpEquation(h, r, n)
  BY <1>2
<1>4. DOMAIN turns = 1..n
  OBVIOUS
<1>5. FoldLeft(LAMBDA s, m : GodotOp(s), r, turns) = h[1..n]
  <2> HIDE DEF turns
  <2>1. FoldLeft(LAMBDA s, m : GodotOp(s), r, turns) =
          (CHOOSE k : k = [s \in SUBSET DOMAIN turns |-> IF s = {} THEN r ELSE GodotOp(k[s \ {Max(s)}])])[DOMAIN turns]
    BY DEF FoldLeft, MapThenFoldSet
  <2>2. QED BY <1>4, <2>1 DEF GodotOpEquation
<1> HIDE DEF h, turns
<1> DEFINE p == [i \in 0..n |-> h[1..i]]
<1>6. p[0] = r
  BY <1>3, FirstTurns DEF GodotOpEquation
<1>7. ASSUME NEW i \in 1..n PROVE p[i] = GodotOp(p[i - 1])
  <2>1. PICK s : s = 1..i
    OBVIOUS
  <2>2. s \in SUBSET (1..n) /\ s # {} /\ Max(s) = i /\ s \ {i} = 1..(i - 1)
    BY <2>1, FirstTurns
  <2>3. h[s] = GodotOp(h[s \ {i}])
    BY <1>3, <2>2 DEF GodotOpEquation
  <2>4. i \in 0..n /\ i - 1 \in 0..n
    OBVIOUS
  <2>5. QED BY <2>1, <2>2, <2>3, <2>4
<1>8. p[n] = h[1..n]
  OBVIOUS
<1> HIDE DEF p
<1>9. GodotOpRun(p, r, n)
  BY <1>6, <1>7 DEF GodotOpRun
<1>10. QED BY <1>5, <1>8, <1>9 DEF turns

ReadOpRun(g, r, n) == g[0] = r /\ \A i \in 1..n : g[i] = ReadOp(g[i - 1])
ReadOpEquation(f, r, n) ==
  f = [s \in SUBSET (1..n) |-> IF s = {} THEN r ELSE ReadOp(f[s \ {Max(s)}])]

LEMMA ReadOpRuns ==
  ASSUME NEW n \in Nat, NEW r
  PROVE  \E g : ReadOpRun(g, r, n)
<1> DEFINE Has(i) == \E g : ReadOpRun(g, r, i)
           C == {i \in 0..n : ~ Has(i)}
<1>1. Has(0)
  <2> DEFINE g == [i \in {0} |-> r]
  <2>1. ReadOpRun(g, r, 0)
    BY DEF ReadOpRun
  <2> HIDE DEF g
  <2>2. QED BY <2>1
<1>2. ASSUME NEW i \in 1..n, Has(i - 1) PROVE Has(i)
  <2>1. PICK g : ReadOpRun(g, r, i - 1)
    BY <1>2
  <2> DEFINE h == [j \in 0..i |-> IF j = i THEN ReadOp(g[i - 1]) ELSE g[j]]
  <2>2. h[0] = r
    BY <2>1 DEF ReadOpRun
  <2>3. ASSUME NEW j \in 1..i PROVE h[j] = ReadOp(h[j - 1])
    <3>1. j - 1 \in 0..i /\ j - 1 # i /\ j \in 0..i
      OBVIOUS
    <3>2. h[j - 1] = g[j - 1]
      BY <3>1
    <3>3. CASE j = i
      BY <3>1, <3>2, <3>3
    <3>4. CASE j # i
      <4>1. j \in 1..(i - 1)
        BY <3>4
      <4>2. g[j] = ReadOp(g[j - 1])
        BY <2>1, <4>1 DEF ReadOpRun
      <4>3. h[j] = g[j]
        BY <3>1, <3>4
      <4> HIDE DEF h
      <4>4. QED BY <3>2, <4>2, <4>3
    <3>5. QED BY <3>3, <3>4
  <2> HIDE DEF h
  <2>4. ReadOpRun(h, r, i)
    BY <2>2, <2>3 DEF ReadOpRun
  <2>5. QED BY <2>4
<1> HIDE DEF Has
<1>3. C = {}
  <2>1. C \subseteq 0..n /\ 0 \notin C
    BY <1>1
  <2>2. ASSUME NEW i \in 1..n, i \in C PROVE i - 1 \in C
    <3>1. i - 1 \in 0..n
      OBVIOUS
    <3>2. QED BY <1>2, <2>2, <3>1
  <2> HIDE DEF C
  <2>3. QED BY <2>1, <2>2, NoFirstFailure
<1>4. n \in 0..n
  OBVIOUS
<1>5. Has(n)
  BY <1>3, <1>4
<1>6. QED BY <1>5 DEF Has

LEMMA ReadOpsAreRun ==
  ASSUME NEW n \in Nat, NEW r
  PROVE  \E g : ReadOpRun(g, r, n) /\ FoldLeft(LAMBDA s, m : ReadOp(s), r, [m \in 1..n |-> m]) = g[n]
<1>1. PICK g : ReadOpRun(g, r, n)
  BY ReadOpRuns
<1> DEFINE f == [s \in SUBSET (1..n) |-> g[Cardinality(s)]]
<1>2. ReadOpEquation(f, r, n)
  <2>1. ASSUME NEW s \in SUBSET (1..n), s # {} PROVE f[s] = ReadOp(f[s \ {Max(s)}])
    <3>1. PICK m : m = Max(s) /\ m \in s /\ s \ {m} \in SUBSET (1..n)
      BY <2>1, LargestInPart
    <3>2. IsFiniteSet(1..n) /\ Cardinality(1..n) = n
      BY FS_Interval
    <3>3. IsFiniteSet(s) /\ Cardinality(s) \in Nat /\ Cardinality(s) <= n
      BY <3>2, FS_Subset, FS_CardinalityType
    <3>4. Cardinality(s \ {m}) = Cardinality(s) - 1
      BY <3>1, <3>3, FS_RemoveElement
    <3>5. Cardinality(s) # 0
      BY <2>1, <3>3, FS_EmptySet
    <3>6. PICK c \in 1..n : c = Cardinality(s) /\ c - 1 = Cardinality(s \ {m})
      BY <3>3, <3>4, <3>5
    <3>7. f[s] = g[c] /\ f[s \ {m}] = g[c - 1]
      BY <3>1, <3>6
    <3> HIDE DEF f
    <3>8. QED BY <1>1, <3>1, <3>7 DEF ReadOpRun
  <2>2. f[{}] = r
    <3>1. f[{}] = g[Cardinality({})]
      OBVIOUS
    <3>2. QED BY <1>1, <3>1, FS_EmptySet DEF ReadOpRun
  <2>3. f = [s \in SUBSET (1..n) |-> f[s]]
    OBVIOUS
  <2> HIDE DEF f
  <2>4. \A s \in SUBSET (1..n) : f[s] = IF s = {} THEN r ELSE ReadOp(f[s \ {Max(s)}])
    BY <2>1, <2>2
  <2>5. f = [s \in SUBSET (1..n) |-> IF s = {} THEN r ELSE ReadOp(f[s \ {Max(s)}])]
    BY <2>3, <2>4
  <2>6. QED BY <2>5 DEF ReadOpEquation
<1> HIDE DEF f
<1> DEFINE h == CHOOSE k : ReadOpEquation(k, r, n)
           turns == [m \in 1..n |-> m]
<1>3. ReadOpEquation(h, r, n)
  BY <1>2
<1>4. DOMAIN turns = 1..n
  OBVIOUS
<1>5. FoldLeft(LAMBDA s, m : ReadOp(s), r, turns) = h[1..n]
  <2> HIDE DEF turns
  <2>1. FoldLeft(LAMBDA s, m : ReadOp(s), r, turns) =
          (CHOOSE k : k = [s \in SUBSET DOMAIN turns |-> IF s = {} THEN r ELSE ReadOp(k[s \ {Max(s)}])])[DOMAIN turns]
    BY DEF FoldLeft, MapThenFoldSet
  <2>2. QED BY <1>4, <2>1 DEF ReadOpEquation
<1> HIDE DEF h, turns
<1> DEFINE p == [i \in 0..n |-> h[1..i]]
<1>6. p[0] = r
  BY <1>3, FirstTurns DEF ReadOpEquation
<1>7. ASSUME NEW i \in 1..n PROVE p[i] = ReadOp(p[i - 1])
  <2>1. PICK s : s = 1..i
    OBVIOUS
  <2>2. s \in SUBSET (1..n) /\ s # {} /\ Max(s) = i /\ s \ {i} = 1..(i - 1)
    BY <2>1, FirstTurns
  <2>3. h[s] = ReadOp(h[s \ {i}])
    BY <1>3, <2>2 DEF ReadOpEquation
  <2>4. i \in 0..n /\ i - 1 \in 0..n
    OBVIOUS
  <2>5. QED BY <2>1, <2>2, <2>3, <2>4
<1>8. p[n] = h[1..n]
  OBVIOUS
<1> HIDE DEF p
<1>9. ReadOpRun(p, r, n)
  BY <1>6, <1>7 DEF ReadOpRun
<1>10. QED BY <1>5, <1>8, <1>9 DEF turns

-------------------------------------------------------------------------------
(* Codec: the operations of a message are read *)

\* r is at place k of F with at least what was read before.
Got(r, F, k, read, ops, V) == \E more : Extends(more, read) /\ At(r, F, k, more, ops, V)

LEMMA OpGot ==
  ASSUME NEW F, NEW S, NEW V, Gives(F, S, V), NEW r, NEW k, NEW read \in Seq(V), NEW acc,
         Got(r, F, k, read, acc, V), NEW op, IsOp(op),
         \A j \in 1..OpSize(op) : F[k + j] = OpFields(op)[j],
         NEW z, z = k + OpSize(op), z <= Len(F)
  PROVE  /\ Got(GodotOp(r), F, z, read, Append(acc, op), V)
         /\ IF TooLarge(op) THEN Failed(ReadOp(r)) /\ ReadOp(r).error = "PayloadTooLarge"
            ELSE ReadOp(r) = GodotOp(r)
<1>1. PICK more : Extends(more, read) /\ At(r, F, k, more, acc, V)
  BY DEF Got
<1>2. /\ \E most : Extends(most, more) /\ At(GodotOp(r), F, z, most, Append(acc, op), V)
      /\ IF TooLarge(op) THEN Failed(ReadOp(r)) /\ ReadOp(r).error = "PayloadTooLarge"
         ELSE ReadOp(r) = GodotOp(r)
  BY <1>1, OpRead
<1>3. PICK most : Extends(most, more) /\ At(GodotOp(r), F, z, most, Append(acc, op), V)
  BY <1>2
<1>4. more \in Seq(V) /\ most \in Seq(V)
  BY <1>1, <1>3 DEF At
<1>5. Extends(most, read)
  BY <1>1, <1>3, <1>4, ExtendsTransitive
<1>6. QED BY <1>2, <1>3, <1>5 DEF Got

LEMMA FailedReadsNoOp ==
  ASSUME NEW r, Failed(r)
  PROVE  ReadOp(r) = r
<1>1. ReadExact(r, 1) = r /\ ReadExact(r, 8) = r
  BY StaysFailed
<1>2. ReadExact(ReadExact(r, 1), 8) = r
  BY <1>1
<1>3. QED BY <1>2 DEF ReadOp

\* the first operations of a message
Upto(ops, i) == [j \in 1..i |-> ops[j]]

LEMMA UptoGrows ==
  ASSUME NEW i \in Nat, i # 0, NEW ops
  PROVE  Append(Upto(ops, i - 1), ops[i]) = Upto(ops, i)
<1>1. PICK B : B = {ops[j] : j \in 1..i}
  OBVIOUS
<1>2. PICK a, b : a = Upto(ops, i - 1) /\ b = Upto(ops, i)
  OBVIOUS
<1>3. PICK k \in Nat : k = i - 1
  OBVIOUS
<1>4. a \in Seq(B) /\ Len(a) = i - 1 /\ b \in Seq(B) /\ Len(b) = i /\ ops[i] \in B
  <2>1. a \in [1..k -> B] /\ b \in [1..i -> B] /\ i \in 1..i
    BY <1>1, <1>2, <1>3 DEF Upto
  <2>2. a \in Seq(B) /\ Len(a) = k /\ b \in Seq(B) /\ Len(b) = i
    BY <2>1
  <2>3. QED BY <1>1, <1>3, <2>1, <2>2
<1>5. PICK c : c = Append(a, ops[i])
  OBVIOUS
<1>6. c \in Seq(B) /\ Len(c) = i /\ c[i] = ops[i] /\ \A j \in 1..(i - 1) : c[j] = a[j]
  BY <1>4, <1>5
<1>7. \A j \in 1..i : c[j] = b[j]
  <2> SUFFICES ASSUME NEW j \in 1..i PROVE c[j] = b[j]
    OBVIOUS
  <2>1. b[j] = ops[j]
    BY <1>2 DEF Upto
  <2>2. CASE j = i
    BY <1>6, <2>1, <2>2
  <2>3. CASE j # i
    <3>1. j \in 1..(i - 1)
      BY <2>3
    <3>2. a[j] = ops[j]
      BY <1>2, <3>1 DEF Upto
    <3>3. QED BY <1>6, <2>1, <3>1, <3>2
  <2>4. QED BY <2>2, <2>3
<1>8. c = b
  BY <1>4, <1>6, <1>7
<1>9. QED BY <1>2, <1>5, <1>8

LEMMA UptoNone ==
  ASSUME NEW ops
  PROVE  Upto(ops, 0) = <<>>
BY DEF Upto

\* what the Rust reader makes of operations it has the fields of
ReadsOps(r, ops, all) ==
  IF Len(ops) > MaxOps THEN Failed(r) /\ r.error = "TooManyDeltaOps"
  ELSE IF \E i \in DOMAIN ops : TooLarge(ops[i]) THEN Failed(r) /\ r.error = "PayloadTooLarge"
  ELSE r = all

LEMMA OpsGot ==
  ASSUME NEW F, NEW S, NEW V, Gives(F, S, V), NEW r, NEW m, NEW read \in Seq(V),
         Got(r, F, m, read, <<>>, V), NEW ops, IsOps(ops), NEW n, n = Len(ops), NEW J, NEW p,
         LaidOut(J, p, ops, n), \A j \in 1..Len(J) : F[m + j] = J[j], Len(F) = m + Len(J),
         Len(J) \in Nat, NEW g, GodotOpRun(g, r, n), NEW h, ReadOpRun(h, r, n)
  PROVE  /\ Got(g[n], F, Len(F), read, ops, V)
         /\ IF \E i \in 1..n : TooLarge(ops[i]) THEN Failed(h[n]) /\ h[n].error = "PayloadTooLarge"
            ELSE h[n] = g[n]
<1>1. n \in Nat /\ ops = [i \in 1..n |-> ops[i]] /\ DOMAIN ops = 1..n /\ \A i \in 1..n : IsOp(ops[i])
  BY OpsAre
<1>2. m \in Nat
  <2>1. PICK more : At(r, F, m, more, <<>>, V)
    BY DEF Got
  <2>2. QED BY <2>1 DEF At
<1>len. PICK N \in Nat : N = Len(J) /\ Len(F) = m + N
  OBVIOUS
<1>3. /\ p[0] = 0 /\ p[n] = Len(J) /\ \A i \in 0..n : p[i] \in 0..Len(J)
      /\ \A i \in 1..n : /\ p[i] = p[i - 1] + OpSize(ops[i])
                         /\ \A j \in 1..OpSize(ops[i]) : J[p[i - 1] + j] = OpFields(ops[i])[j]
  BY DEF LaidOut
<1> DEFINE Bad(i) == \E j \in 1..i : TooLarge(ops[j])
           Good(i) == /\ Got(g[i], F, m + p[i], read, Upto(ops, i), V)
                      /\ IF Bad(i) THEN Failed(h[i]) /\ h[i].error = "PayloadTooLarge"
                         ELSE h[i] = g[i]
           C == {i \in 0..n : ~ Good(i)}
<1>4. Good(0)
  <2>1. m + p[0] = m /\ g[0] = r /\ h[0] = r
    BY <1>2, <1>3 DEF GodotOpRun, ReadOpRun
  <2>2. ~ Bad(0)
    OBVIOUS
  <2>3. QED BY <2>1, <2>2, UptoNone
<1>5. ASSUME NEW i \in 1..n, Good(i - 1) PROVE Good(i)
  <2>1. PICK op, k, z, size : /\ op = ops[i] /\ k = m + p[i - 1] /\ z = m + p[i]
                              /\ size = OpSize(op)
    OBVIOUS
  <2>2. IsOp(op) /\ size \in {2, 3, 4}
    BY <1>1, <2>1 DEF OpSize
  <2>3. PICK a \in Nat, b \in Nat : a = p[i - 1] /\ b = p[i] /\ b = a + size /\ b <= N
    <3>1. i - 1 \in 0..n /\ i \in 0..n
      BY <1>1
    <3>2. p[i - 1] \in 0..Len(J) /\ p[i] \in 0..Len(J)
      BY <1>3, <3>1
    <3>3. p[i] = p[i - 1] + size
      BY <1>3, <2>1
    <3>4. QED BY <1>len, <3>2, <3>3
  <2>4. z = k + OpSize(op) /\ z <= Len(F) /\ k = m + a /\ size \in Nat
    <3>1. k = m + a /\ z = m + (a + size) /\ size \in Nat
      BY <2>1, <2>2, <2>3
    <3>2. z = (m + a) + size /\ z <= m + N
      <4>1. b = a + size /\ b <= N
        BY <2>3
      <4>2. QED BY ONLY <1>2, <3>1, <4>1
    <3>3. QED BY <1>len, <2>1, <3>1, <3>2
  <2>5. ASSUME NEW j \in 1..OpSize(op) PROVE F[k + j] = OpFields(op)[j]
    <3>1. a + j \in 1..N /\ k + j = m + (a + j)
      <4>1. j \in 1..size /\ size \in Nat /\ k = m + a
        BY <2>1, <2>4
      <4>2. a \in Nat /\ b \in Nat /\ b = a + size /\ b <= N
        BY <2>3
      <4>3. QED BY ONLY <1>2, <1>len, <4>1, <4>2
    <3>2. F[k + j] = J[a + j]
      BY <1>len, <3>1
    <3>3. J[a + j] = OpFields(op)[j]
      BY <1>3, <2>1, <2>3
    <3>4. QED BY <3>2, <3>3
  <2>6. Got(g[i - 1], F, k, read, Upto(ops, i - 1), V)
    BY <1>5, <2>1
  <2>7. /\ Got(GodotOp(g[i - 1]), F, z, read, Append(Upto(ops, i - 1), op), V)
        /\ IF TooLarge(op)
             THEN Failed(ReadOp(g[i - 1])) /\ ReadOp(g[i - 1]).error = "PayloadTooLarge"
             ELSE ReadOp(g[i - 1]) = GodotOp(g[i - 1])
    <3>1. Gives(F, S, V) /\ read \in Seq(V)
      OBVIOUS
    <3>2. z = k + OpSize(op) /\ z <= Len(F) /\ IsOp(op)
      BY <2>2, <2>4
    <3>3. \A j \in 1..OpSize(op) : F[k + j] = OpFields(op)[j]
      BY <2>5
    <3>4. QED BY ONLY <2>6, <3>1, <3>2, <3>3, OpGot
  <2>8. g[i] = GodotOp(g[i - 1]) /\ h[i] = ReadOp(h[i - 1])
    BY DEF GodotOpRun, ReadOpRun
  <2>9. Append(Upto(ops, i - 1), op) = Upto(ops, i)
    <3>1. i \in Nat /\ i # 0
      BY <1>1
    <3>2. QED BY <2>1, <3>1, UptoGrows
  <2>10. Got(g[i], F, m + p[i], read, Upto(ops, i), V)
    BY <2>1, <2>7, <2>8, <2>9
  <2>11. Bad(i) <=> Bad(i - 1) \/ TooLarge(op)
    <3>1. \A j : j \in 1..i <=> j \in 1..(i - 1) \/ j = i
      BY <1>1
    <3>2. QED BY <2>1, <3>1
  <2>12. IF Bad(i - 1) THEN Failed(h[i - 1]) /\ h[i - 1].error = "PayloadTooLarge" ELSE h[i - 1] = g[i - 1]
    BY <1>5
  <2> HIDE DEF Bad
  <2>13. CASE Bad(i - 1)
    BY <2>8, <2>10, <2>11, <2>12, <2>13, FailedReadsNoOp
  <2>14. CASE ~ Bad(i - 1)
    BY <2>7, <2>8, <2>10, <2>11, <2>12, <2>14
  <2>15. QED BY <2>13, <2>14
<1> HIDE DEF Good
<1>6. C = {}
  <2>1. C \subseteq 0..n /\ 0 \notin C
    BY <1>4
  <2>2. ASSUME NEW i \in 1..n, i \in C PROVE i - 1 \in C
    <3>1. i - 1 \in 0..n
      BY <1>1
    <3>2. QED BY <1>5, <2>2, <3>1
  <2> HIDE DEF C
  <2>3. QED BY <1>1, <2>1, <2>2, NoFirstFailure
<1>7. n \in 0..n
  BY <1>1
<1>8. Good(n)
  BY <1>6, <1>7
<1>9. Upto(ops, n) = ops /\ m + p[n] = Len(F)
  BY <1>1, <1>3 DEF Upto
<1>10. QED BY <1>8, <1>9 DEF Good

\* The count and the operations end a message.
CountedOps(F, m, ops) ==
  LET J == Joined(ops)
  IN  /\ F[m] = Field(4, Len(ops)) /\ (\A j \in 1..Len(J) : F[m + j] = J[j])
      /\ Len(F) = m + Len(J)

LEMMA CountedOpsRead ==
  ASSUME NEW F, NEW S, NEW V, Gives(F, S, V), NEW r, NEW k, NEW read, At(r, F, k, read, <<>>, V),
         NEW ops, IsOps(ops), NEW m, m = k + 1, CountedOps(F, m, ops)
  PROVE  Got(GodotOps(r), F, Len(F), read, ops, V) /\ ReadsOps(ReadOps(r), ops, GodotOps(r))
<1>0. PICK J : /\ J = Joined(ops) /\ F[m] = Field(4, Len(ops))
               /\ (\A j \in 1..Len(J) : F[m + j] = J[j]) /\ Len(F) = m + Len(J)
  BY DEF CountedOps
<1>1. PICK n \in Nat : n = Len(ops) /\ DOMAIN ops = 1..n
  BY OpsAre
<1>2. PICK p : LaidOut(J, p, ops, n)
  BY <1>0, <1>1, OpsLaidOut
<1>3. Len(J) \in Nat /\ k \in Nat /\ m <= Len(F)
  <2>1. PICK X : J \in Seq(X)
    BY <1>0, <1>1, OpsLaidOut
  <2>2. Len(J) \in Nat /\ k \in Nat
    BY <2>1 DEF At
  <2>3. QED BY <1>0, <2>2
<1>4. F[m].width = 4 /\ F[m].value = n
  BY <1>0, <1>1 DEF Field
<1>5. PICK count : count = ReadExact(r, 4)
  OBVIOUS
<1>6. At(count, F, m, Append(read, n), <<>>, V) /\ LastRead(count) = n /\ n \in V
  <2>1. At(r, F, k, read, <<>>, V) /\ Gives(F, S, V) /\ m = k + 1 /\ m <= Len(F) /\ 4 # 0
    BY <1>3
  <2>2. QED BY ONLY <1>4, <1>5, <2>1, NextRead
<1>7. Got(count, F, m, read, <<>>, V)
  BY <1>6, AppendExtends DEF At, Got
<1>8. PICK g : /\ GodotOpRun(g, count, n)
               /\ FoldLeft(LAMBDA s, i : GodotOp(s), count, [i \in 1..n |-> i]) = g[n]
  BY GodotOpsAreRun
<1>9. GodotOps(r) = g[n]
  BY <1>5, <1>6, <1>8 DEF GodotOps
<1>10. PICK h : /\ ReadOpRun(h, count, n)
                /\ FoldLeft(LAMBDA s, i : ReadOp(s), count, [i \in 1..n |-> i]) = h[n]
  BY ReadOpsAreRun
<1>11. /\ Got(g[n], F, Len(F), read, ops, V)
       /\ IF \E i \in 1..n : TooLarge(ops[i]) THEN Failed(h[n]) /\ h[n].error = "PayloadTooLarge"
          ELSE h[n] = g[n]
  <2>1. GodotOpRun(g, count, n) /\ ReadOpRun(h, count, n)
    BY <1>8, <1>10
  <2>2. Gives(F, S, V) /\ read \in Seq(V) /\ IsOps(ops) /\ n = Len(ops)
    BY <1>1 DEF At
  <2>3. (\A j \in 1..Len(J) : F[m + j] = J[j]) /\ Len(F) = m + Len(J) /\ Len(J) \in Nat
    BY <1>0, <1>3
  <2>4. QED BY ONLY <1>2, <1>7, <2>1, <2>2, <2>3, OpsGot
<1>12. ~ Failed(count)
  BY <1>6 DEF At
<1>13. MaxOps \in Nat
  BY CodecAssumption
<1>14. CASE n > MaxOps
  <2>1. Check(count, LastRead(count) <= MaxOps, "TooManyDeltaOps") = Fail(count, "TooManyDeltaOps")
    BY <1>6, <1>12, <1>13, <1>14 DEF Check
  <2>2. "TooManyDeltaOps" # NoError
    BY DEF NoError
  <2>3. PICK q : q = Fail(count, "TooManyDeltaOps")
    OBVIOUS
  <2>4. Failed(q) /\ q.error = "TooManyDeltaOps"
    <3>1. count = Reader(SubSeq(F, m + 1, Len(F)), Append(read, n), <<>>)
      BY <1>6 DEF At, ReaderAt
    <3>2. QED BY <2>2, <2>3, <3>1, ReaderOf
  <2>5. ReadOps(r) = q
    BY <1>5, <2>1, <2>3, <2>4 DEF ReadOps
  <2>6. QED BY <1>1, <1>9, <1>11, <1>14, <2>4, <2>5 DEF ReadsOps
<1>15. CASE ~ (n > MaxOps)
  <2>1. Check(count, LastRead(count) <= MaxOps, "TooManyDeltaOps") = count
    BY <1>6, <1>13, <1>15 DEF Check
  <2>2. ReadOps(r) = h[n]
    BY <1>5, <1>6, <1>10, <1>12, <2>1 DEF ReadOps
  <2>3. QED BY <1>1, <1>9, <1>11, <1>15, <2>2 DEF ReadsOps
<1>16. QED BY <1>14, <1>15

-------------------------------------------------------------------------------
(* Codec: reading the header and the baseline of a server's frame *)

LEMMA AppendIs ==
  ASSUME NEW V, NEW s \in Seq(V), NEW v \in V, NEW n, n = Len(s) + 1
  PROVE  /\ Append(s, v) \in Seq(V) /\ Len(Append(s, v)) = n /\ Append(s, v)[n] = v
         /\ \A i \in 1..Len(s) : Append(s, v)[i] = s[i]
OBVIOUS

GodotHead(F) == ReadExact(ReadExact(ReadExact(NewReader(F), 2), 1), 1)

\* a header has been read
HeadRead(read, t) == Len(read) = 3 /\ read[1] = "GW" /\ read[2] = 2 /\ read[3] = t

LEMMA HeaderIsRead ==
  ASSUME NEW F, NEW S, NEW V, Gives(F, S, V), NEW t, IsHeaded(F, t), NEW head, head = GodotHead(F)
  PROVE  /\ \E read : At(head, F, 3, read, <<>>, V) /\ HeadRead(read, t)
         /\ ReadHeader(NewReader(F)) = head /\ LastRead(head) = t
<1>1. F \in Seq(S) /\ Len(F) \in Nat /\ Len(F) >= 4
  BY DEF Gives, IsHeaded
<1>2. /\ F[1].width = 2 /\ F[1].value = "GW" /\ F[2].width = 1 /\ F[2].value = 2
      /\ F[3].width = 1 /\ F[3].value = t
  BY DEF IsHeaded, Field
<1>3. PICK empty : empty = <<>>
  OBVIOUS
<1>4. PICK r0, r1, r2 : /\ r0 = NewReader(F) /\ r1 = ReadExact(r0, 2)
                        /\ r2 = ReadExact(r1, 1)
  OBVIOUS
<1>5. head = ReadExact(r2, 1)
  BY <1>4 DEF GodotHead
<1>6. At(r0, F, 0, empty, empty, V)
  <2>1. r0 = ReaderAt(F, 0, empty, empty)
    BY <1>1, <1>3, <1>4, NewReaderIs
  <2>2. 0 \in 0..Len(F) /\ empty \in Seq(V)
    BY <1>1, <1>3
  <2>3. QED BY <2>1, <2>2, CursorIs DEF At
<1>7. PICK s1, s2, s3 : /\ s1 = Append(empty, F[1].value) /\ s2 = Append(s1, F[2].value)
                        /\ s3 = Append(s2, F[3].value)
  OBVIOUS
<1>8. At(r1, F, 1, s1, empty, V) /\ LastRead(r1) = "GW" /\ F[1].value \in V
  <2>1. 1 = 0 + 1 /\ 1 <= Len(F) /\ 2 # 0
    BY <1>1
  <2>2. QED BY <1>2, <1>4, <1>6, <1>7, <2>1, NextRead
<1>9. At(r2, F, 2, s2, empty, V) /\ LastRead(r2) = 2 /\ F[2].value \in V
  <2>1. 2 = 1 + 1 /\ 2 <= Len(F) /\ 1 # 0
    BY <1>1
  <2>2. QED BY <1>2, <1>4, <1>7, <1>8, <2>1, NextRead
<1>10. At(head, F, 3, s3, empty, V) /\ LastRead(head) = t /\ F[3].value \in V
  <2>1. 3 = 2 + 1 /\ 3 <= Len(F) /\ 1 # 0
    BY <1>1
  <2>2. QED BY <1>2, <1>5, <1>7, <1>9, <2>1, NextRead
<1>11. HeadRead(s3, t)
  <2>1. empty \in Seq(V) /\ Len(empty) = 0
    BY <1>3
  <2>2. s1 \in Seq(V) /\ Len(s1) = 1 /\ s1[1] = F[1].value
    BY <1>7, <1>8, <2>1, AppendIs
  <2>3. s2 \in Seq(V) /\ Len(s2) = 2 /\ s2[2] = F[2].value /\ s2[1] = s1[1]
    BY <1>7, <1>9, <2>2, AppendIs
  <2>4. Len(s3) = 3 /\ s3[3] = F[3].value /\ s3[1] = s2[1] /\ s3[2] = s2[2]
    BY <1>7, <1>10, <2>3, AppendIs
  <2>5. QED BY <1>2, <2>2, <2>3, <2>4 DEF HeadRead
<1>12. ReadHeader(r0) = head
  <2>1. Check(r1, LastRead(r1) = "GW", "InvalidMagic") = r1
    BY <1>8 DEF Check
  <2>2. Check(r2, LastRead(r2) = 2, "UnsupportedVersion") = r2
    BY <1>9 DEF Check
  <2>3. QED BY <1>4, <1>5, <2>1, <2>2 DEF ReadHeader
<1>13. QED BY <1>3, <1>4, <1>10, <1>11, <1>12

LEMMA BaselineIsRead ==
  ASSUME NEW F, NEW S, NEW V, Gives(F, S, V), NEW r, NEW k, NEW read, NEW ops,
         At(r, F, k, read, ops, V), NEW baseline, BaselineAt(F, k, baseline),
         NEW z, z = k + BaselineSize(baseline), z <= Len(F), NEW q, q = GodotBaseline(r)
  PROVE  /\ At(q, F, z, Append(read, baseline), ops, V) /\ ReadBaseline(r) = q
         /\ baseline \in V
<1>1. PICK flag, m : flag = ReadExact(r, 1) /\ m = k + 1
  OBVIOUS
<1>2. k \in Nat /\ Len(F) \in Nat /\ m <= Len(F)
  <2>1. k \in Nat /\ Len(F) \in Nat
    BY DEF At, Gives
  <2>2. QED BY <1>1, <2>1 DEF BaselineSize
<1>3. CASE baseline = NoBaseline
  <2>1. F[m] = Field(1, 0) /\ z = m
    BY <1>1, <1>3 DEF BaselineAt, BaselineSize
  <2>2. F[m].width = 1 /\ F[m].value = 0
    BY <2>1 DEF Field
  <2>3. LastRead(flag) = 0 /\ At(Unread(flag), F, m, read, ops, V) /\ ~ Failed(flag)
    <3>1. /\ At(flag, F, m, Append(read, 0), ops, V) /\ LastRead(flag) = 0
          /\ At(Unread(flag), F, m, read, ops, V)
      BY <1>1, <1>2, <2>2, NextRead
    <3>2. QED BY <3>1 DEF At
  <2>4. PICK u : u = Unread(flag)
    OBVIOUS
  <2>5. q = [u EXCEPT !.read = Append(@, baseline)] /\ ReadBaseline(r) = q
    BY <1>1, <1>3, <2>3, <2>4 DEF GodotBaseline, ReadBaseline
  <2>6. PICK rest, more : rest = SubSeq(F, m + 1, Len(F)) /\ more = Append(read, baseline)
    OBVIOUS
  <2>7. u = Reader(rest, read, ops) /\ m \in 0..Len(F) /\ read \in Seq(V)
    BY <2>3, <2>4, <2>6 DEF At, ReaderAt
  <2>8. u.read = read
    BY <2>7 DEF Reader
  <2>9. q = [u EXCEPT !.read = more]
    BY <2>5, <2>6, <2>8
  <2>10. q = Reader(rest, more, ops)
    BY <2>7, <2>9 DEF Reader
  <2>11. q = ReaderAt(F, m, more, ops)
    BY <2>6, <2>10 DEF ReaderAt
  <2>12. baseline \in V
    BY <1>3 DEF Gives
  <2>13. more \in Seq(V)
    BY <2>6, <2>7, <2>12, AppendExtends
  <2>14. At(q, F, m, more, ops, V)
    BY <2>7, <2>11, <2>13, CursorIs DEF At
  <2>15. QED BY <2>1, <2>5, <2>6, <2>12, <2>14
<1>4. CASE baseline # NoBaseline
  <2>1. F[m] = Field(1, 1) /\ F[k + 2] = Field(8, baseline) /\ z = k + 2
    BY <1>1, <1>4 DEF BaselineAt, BaselineSize
  <2>2. F[m].width = 1 /\ F[m].value = 1 /\ F[z].width = 8 /\ F[z].value = baseline /\ z = m + 1
    <3>1. k + 2 = m + 1
      BY <1>1, <1>2
    <3>2. QED BY <2>1, <3>1 DEF Field
  <2>3. LastRead(flag) = 1 /\ At(Unread(flag), F, m, read, ops, V) /\ ~ Failed(flag)
    <3>1. /\ At(flag, F, m, Append(read, 1), ops, V) /\ LastRead(flag) = 1
          /\ At(Unread(flag), F, m, read, ops, V)
      BY <1>1, <1>2, <2>2, NextRead
    <3>2. QED BY <3>1 DEF At
  <2>4. q = ReadExact(Unread(flag), 8) /\ ReadBaseline(r) = q
    BY <1>1, <2>3 DEF GodotBaseline, ReadBaseline
  <2>5. PICK u : u = Unread(flag)
    OBVIOUS
  <2>6. At(u, F, m, read, ops, V) /\ q = ReadExact(u, 8)
    BY <2>3, <2>4, <2>5
  <2>7. At(q, F, z, Append(read, baseline), ops, V) /\ baseline \in V
    BY <2>2, <2>6, NextRead
  <2>8. QED BY <2>4, <2>7
<1>5. QED BY <1>3, <1>4

-------------------------------------------------------------------------------
(* Codec: a snapshot's or a fragment's frame *)

\* F has the fields of mid between its header and the operations.
FrameOf(F, t, mid, ops) ==
  /\ \E S, V : Gives(F, S, V)
  /\ Framed(F, Field(2, "GW"), Field(1, 2), Field(1, t), mid, Field(4, Len(ops)), Joined(ops))
  /\ Bytes(F) = 8 + Bytes(mid) + LensOf(ops)
  /\ Bytes(mid) \in Nat /\ LensOf(ops) \in Nat /\ Len(Joined(ops)) \in Nat /\ Len(mid) \in Nat

LEMMA SnapshotFramed ==
  ASSUME NEW t, NEW X, Widths(X), NEW mid \in Seq(X), NEW ops, IsOps(ops), NEW J, J = Joined(ops),
         NEW F, F = <<Field(2, "GW"), Field(1, 2), Field(1, t)>> \o (mid \o (<<Field(4, Len(ops))>> \o J))
  PROVE  FrameOf(F, t, mid, ops)
<1>1. PICK a, b, c, num : /\ a = Field(2, "GW") /\ b = Field(1, 2) /\ c = Field(1, t)
                          /\ num = Field(4, Len(ops))
  OBVIOUS
<1>2. a.width = 2 /\ b.width = 1 /\ c.width = 1 /\ num.width = 4
  BY <1>1 DEF Field
<1>3. PICK Y : Widths(Y) /\ J \in Seq(Y)
  BY OpsLaidOut
<1>4. Bytes(J) = LensOf(ops) /\ Bytes(J) \in Nat
  BY OpsLaidOut
<1>5. PICK S : S = X \cup Y \cup {a, b, c, num}
  OBVIOUS
<1>6. Widths(S)
  BY <1>2, <1>3, <1>5 DEF Widths
<1>7. mid \in Seq(S) /\ J \in Seq(S) /\ a \in S /\ b \in S /\ c \in S /\ num \in S
  BY <1>3, <1>5
<1>8. F = FrameFields(a, b, c, mid, num, J)
  BY <1>1 DEF FrameFields
<1>9. /\ F \in Seq(S) /\ Framed(F, a, b, c, mid, num, J)
      /\ Bytes(F) = a.width + b.width + c.width + Bytes(mid) + num.width + Bytes(J)
  BY ONLY <1>6, <1>7, <1>8, FrameIs
<1>10. PICK V : V = {field.value : field \in S} \cup {<<>>, NoBaseline}
  OBVIOUS
<1>11. Gives(F, S, V)
  BY <1>9, <1>10 DEF Gives
<1>12. PICK n \in Nat, l \in Nat, u \in Nat, v \in Nat :
         n = Bytes(mid) /\ l = Bytes(J) /\ u = Len(J) /\ v = Len(mid)
  <2>1. <<>> \in Seq(S)
    OBVIOUS
  <2>2. Bytes(mid) \in Nat
    BY <1>6, <1>7, <2>1, BytesJoin
  <2>3. QED BY <1>4, <1>7, <2>2
<1>13. Bytes(F) = 2 + 1 + 1 + n + 4 + l
  BY ONLY <1>2, <1>9, <1>12
<1>14. 2 + 1 + 1 + n + 4 + l = 8 + n + l
  BY ONLY <1>12
<1>15. Bytes(F) = 8 + Bytes(mid) + LensOf(ops)
  BY ONLY <1>4, <1>12, <1>13, <1>14
<1>16. QED BY <1>1, <1>4, <1>9, <1>11, <1>12, <1>15 DEF FrameOf

\* what a frame of a delta, or of a fragment when there is a place, consists of
SnapshotFrame(F, t, sequence, baseline, place, ops) ==
  /\ \E S, V : Gives(F, S, V)
  /\ IsHeaded(F, t) /\ F[4] = Field(8, sequence) /\ BaselineAt(F, 4, baseline)
  /\ LET k == 4 + BaselineSize(baseline)
         m == k + Len(place)
         J == Joined(ops)
     IN  /\ \A i \in 1..Len(place) : F[k + i] = Field(2, place[i])
         /\ F[m + 1] = Field(4, Len(ops))
         /\ \A j \in 1..Len(J) : F[m + 1 + j] = J[j]
         /\ Len(F) = m + 1 + Len(J)

\* mid has the sequence, the baseline and the place.
Middle(mid, sequence, baseline, place) ==
  /\ Len(mid) = 1 + BaselineSize(baseline) + Len(place) /\ Len(place) \in Nat
  /\ mid[1] = Field(8, sequence) /\ BaselineAt(mid, 1, baseline)
  /\ \A i \in 1..Len(place) : mid[1 + BaselineSize(baseline) + i] = Field(2, place[i])

LEMMA FramedSnapshot ==
  ASSUME NEW t, NEW mid, NEW ops, NEW F, FrameOf(F, t, mid, ops),
         NEW sequence, NEW baseline, NEW place, Middle(mid, sequence, baseline, place)
  PROVE  SnapshotFrame(F, t, sequence, baseline, place, ops)
<1> DEFINE J == Joined(ops)
<1>0. PICK e \in Nat, l \in Nat : e = BaselineSize(baseline) /\ l = Len(place) /\ e \in {1, 2}
  BY DEF BaselineSize, Middle
<1>1. PICK n \in Nat, k \in Nat, m \in Nat, u \in Nat :
        n = Len(mid) /\ k = 4 + e /\ m = k + l /\ u = Len(J)
  <2>1. 4 + e \in Nat /\ 4 + e + l \in Nat /\ Len(mid) \in Nat /\ Len(J) \in Nat
    BY DEF FrameOf
  <2>2. QED BY <2>1
<1>2. n = 1 + e + l /\ e >= 1
  <2>1. Len(mid) = 1 + BaselineSize(baseline) + Len(place)
    BY DEF Middle
  <2>2. n = Len(mid) /\ e = BaselineSize(baseline) /\ l = Len(place)
    BY <1>0, <1>1
  <2>3. n = 1 + e + l
    BY ONLY <2>1, <2>2
  <2>4. e >= 1
    BY ONLY <1>0
  <2>5. QED BY ONLY <2>3, <2>4
<1>3. /\ F[1] = Field(2, "GW") /\ F[2] = Field(1, 2) /\ F[3] = Field(1, t)
      /\ \A j \in 1..n : F[3 + j] = mid[j]
      /\ F[3 + n + 1] = Field(4, Len(ops))
      /\ \A j \in 1..u : F[3 + n + 1 + j] = J[j]
      /\ Len(F) = 3 + n + 1 + u
  BY <1>1 DEF Framed, FrameOf
<1>4. 3 + n + 1 = m + 1 /\ 3 + n + 1 + u = m + 1 + u /\ m + 1 + u >= 4
  BY ONLY <1>1, <1>2
<1>5. IsHeaded(F, t)
  BY <1>3, <1>4 DEF IsHeaded
<1>6. F[4] = Field(8, sequence)
  <2>1. 1 \in 1..n /\ 3 + 1 = 4
    BY ONLY <1>2, <1>1
  <2>2. F[3 + 1] = mid[1]
    BY <1>3, <2>1
  <2>3. QED BY <2>1, <2>2 DEF Middle
<1>7. BaselineAt(F, 4, baseline)
  <2>1. /\ 2 \in 1..n /\ 3 + 2 = 4 + 1 /\ 1 + 1 = 2
        /\ e = 2 => 3 \in 1..n /\ 3 + 3 = 4 + 2 /\ 1 + 2 = 3
    BY ONLY <1>1, <1>2
  <2>2. F[4 + 1] = mid[1 + 1] /\ (e = 2 => F[4 + 2] = mid[1 + 2])
    BY <1>3, <2>1
  <2>3. e = IF baseline = NoBaseline THEN 1 ELSE 2
    BY <1>0 DEF BaselineSize
  <2>4. QED BY <2>2, <2>3 DEF BaselineAt, Middle
<1>8. ASSUME NEW i \in 1..l PROVE F[k + i] = Field(2, place[i])
  <2>1. 1 + e + i \in 1..n /\ 3 + (1 + e + i) = k + i
    <3>1. i \in 1..l
      OBVIOUS
    <3>2. QED BY ONLY <1>1, <1>2, <3>1
  <2>2. F[3 + (1 + e + i)] = mid[1 + e + i]
    BY <1>3, <2>1
  <2>3. QED BY <1>0, <2>1, <2>2 DEF Middle
<1>9. \A j \in 1..u : F[m + 1 + j] = J[j]
  BY <1>3, <1>4
<1>10. F[m + 1] = Field(4, Len(ops)) /\ Len(F) = m + 1 + u
  BY <1>3, <1>4
<1>11. \E S, V : Gives(F, S, V)
  BY DEF FrameOf
<1>12. QED BY <1>0, <1>1, <1>5, <1>6, <1>7, <1>8, <1>9, <1>10, <1>11 DEF SnapshotFrame

LEMMA DeltaIsWritten ==
  ASSUME NEW sequence, NEW baseline, NEW ops, IsOps(ops),
         NEW m, m = DeltaMessage(sequence, baseline, ops), NEW F, F = Encode(m)
  PROVE  SnapshotFrame(F, 129, sequence, baseline, <<>>, ops) /\ Bytes(F) = EncodedMessageLen(m)
         /\ Bytes(F) >= 4 /\ Bytes(F) \in Nat
<1>1. PICK mid, more, J : /\ mid = <<Field(8, sequence)>> \o BaselineFields(baseline)
                          /\ more = mid \o <<Field(2, 0), Field(2, 0)>> /\ J = Joined(ops)
  OBVIOUS
<1>2. PICK X : Middles(mid, more, sequence, baseline, 0, 0, X)
  BY <1>1, MiddleIs
<1>3. F = <<Field(2, "GW"), Field(1, 2), Field(1, 129)>> \o (mid \o (<<Field(4, Len(ops))>> \o J))
  <2>1. m.kind = "SnapshotDelta" /\ m.sequence = sequence /\ m.baseline = baseline /\ m.ops = ops
    BY DEF DeltaMessage
  <2>2. Header(m.kind) = <<Field(2, "GW"), Field(1, 2), Field(1, 129)>>
    BY <2>1 DEF Header, Tag
  <2>3. F = Header(m.kind) \o DeltaSnapshotFields(m)
    BY <2>1 DEF Encode
  <2>4. DeltaSnapshotFields(m) = mid \o (<<Field(4, Len(ops))>> \o J)
    BY <1>1, <2>1 DEF DeltaSnapshotFields, OpsFields, Joined
  <2>5. QED BY <2>2, <2>3, <2>4
<1>4. FrameOf(F, 129, mid, ops)
  <2>1. Widths(X) /\ mid \in Seq(X) /\ IsOps(ops)
    BY <1>2 DEF Middles
  <2>2. QED BY ONLY <1>1, <1>3, <2>1, SnapshotFramed
<1>5. PICK place : place = <<>>
  OBVIOUS
<1>6. SnapshotFrame(F, 129, sequence, baseline, place, ops)
  <2>1. Len(place) = 0 /\ BaselineSize(baseline) \in Nat
    BY <1>5 DEF BaselineSize
  <2>2. Middle(mid, sequence, baseline, place)
    BY <1>2, <2>1 DEF Middle, Middles
  <2>3. QED BY <1>4, <2>2, FramedSnapshot
<1>7. EncodedMessageLen(m) = 4 + 8 + 1 + 4 + (IF baseline # NoBaseline THEN 8 ELSE 0) + 0 + LensOf(ops)
  BY DEF EncodedMessageLen, DeltaMessage, LensOf
<1>8. PICK d \in Nat, q \in Nat : d = LensOf(ops) /\ q = IF baseline # NoBaseline THEN 8 ELSE 0
  BY <1>4 DEF FrameOf
<1>9. Bytes(F) = 8 + (8 + 1 + q) + d /\ EncodedMessageLen(m) = 4 + 8 + 1 + 4 + q + 0 + d
  BY <1>2, <1>4, <1>7, <1>8 DEF Middles, FrameOf
<1>10. QED BY ONLY <1>5, <1>6, <1>8, <1>9

LEMMA FragmentIsWritten ==
  ASSUME NEW sequence, NEW baseline, NEW index, NEW count, NEW ops, IsOps(ops),
         NEW m, m = FragmentMessage(sequence, baseline, index, count, ops), NEW F, F = Encode(m)
  PROVE  /\ SnapshotFrame(F, 131, sequence, baseline, <<index, count>>, ops)
         /\ Bytes(F) = EncodedMessageLen(m) /\ Bytes(F) >= 4 /\ Bytes(F) \in Nat
<1>1. PICK mid, more, J : /\ mid = <<Field(8, sequence)>> \o BaselineFields(baseline)
                          /\ more = mid \o <<Field(2, index), Field(2, count)>> /\ J = Joined(ops)
  OBVIOUS
<1>2. PICK X : Middles(mid, more, sequence, baseline, index, count, X)
  BY <1>1, MiddleIs
<1>3. F = <<Field(2, "GW"), Field(1, 2), Field(1, 131)>> \o (more \o (<<Field(4, Len(ops))>> \o J))
  <2>1. /\ m.kind = "SnapshotFragment" /\ m.sequence = sequence /\ m.baseline = baseline
        /\ m.fragment_index = index /\ m.fragment_count = count /\ m.ops = ops
    BY DEF FragmentMessage
  <2>2. Header(m.kind) = <<Field(2, "GW"), Field(1, 2), Field(1, 131)>>
    BY <2>1 DEF Header, Tag
  <2>3. F = Header(m.kind) \o SnapshotFragmentFields(m)
    BY <2>1 DEF Encode
  <2>4. SnapshotFragmentFields(m) = more \o (<<Field(4, Len(ops))>> \o J)
    BY <1>1, <2>1 DEF SnapshotFragmentFields, OpsFields, Joined
  <2>5. QED BY <2>2, <2>3, <2>4
<1>4. FrameOf(F, 131, more, ops)
  <2>1. Widths(X) /\ more \in Seq(X) /\ IsOps(ops)
    BY <1>2 DEF Middles
  <2>2. QED BY ONLY <1>1, <1>3, <2>1, SnapshotFramed
<1>5. PICK place : place = <<index, count>>
  OBVIOUS
<1>6. SnapshotFrame(F, 131, sequence, baseline, place, ops)
  <2>1. Len(place) = 2 /\ place[1] = index /\ place[2] = count
    BY <1>5
  <2>2. PICK e \in {1, 2} : e = BaselineSize(baseline) /\ e = IF baseline = NoBaseline THEN 1 ELSE 2
    BY DEF BaselineSize
  <2>3. Len(mid) = 1 + e /\ Len(more) = 1 + e + 2
    BY <1>2, <2>2 DEF Middles
  <2>4. more[1 + e + 1] = Field(2, index) /\ more[1 + e + 2] = Field(2, count)
    BY <1>2, <2>3 DEF Middles
  <2>5. more[1] = Field(8, sequence) /\ BaselineAt(more, 1, baseline)
    <3>1. 1 \in 1..Len(mid) /\ 1 + 1 \in 1..Len(mid) /\ (e = 2 => 1 + 2 \in 1..Len(mid))
      BY <2>3
    <3>2. more[1] = mid[1] /\ more[1 + 1] = mid[1 + 1] /\ (e = 2 => more[1 + 2] = mid[1 + 2])
      BY <1>2, <3>1 DEF Middles
    <3>3. mid[1] = Field(8, sequence) /\ BaselineAt(mid, 1, baseline)
      BY <1>2 DEF Middles
    <3>4. QED BY <2>2, <3>2, <3>3 DEF BaselineAt
  <2>6. \A i \in 1..2 : more[1 + e + i] = Field(2, place[i])
    <3>1. \A i \in 1..2 : i = 1 \/ i = 2
      OBVIOUS
    <3>2. QED BY <2>1, <2>4, <3>1
  <2>7. Middle(more, sequence, baseline, place)
    BY <2>1, <2>2, <2>3, <2>5, <2>6 DEF Middle
  <2>8. QED BY <1>4, <2>7, FramedSnapshot
<1>7. EncodedMessageLen(m) = 4 + 8 + 1 + 4 + (IF baseline # NoBaseline THEN 8 ELSE 0) + (2 + 2) + LensOf(ops)
  BY DEF EncodedMessageLen, FragmentMessage, LensOf
<1>8. PICK d \in Nat, q \in Nat : d = LensOf(ops) /\ q = IF baseline # NoBaseline THEN 8 ELSE 0
  BY <1>4 DEF FrameOf
<1>9. Bytes(F) = 8 + ((8 + 1 + q) + 4) + d /\ EncodedMessageLen(m) = 4 + 8 + 1 + 4 + q + (2 + 2) + d
  BY <1>2, <1>4, <1>7, <1>8 DEF Middles, FrameOf
<1>10. QED BY ONLY <1>5, <1>6, <1>8, <1>9

-------------------------------------------------------------------------------
(* Codec: both clients read a delta, and a fragment *)

\* what the Rust client should get
RustGets(rust, ops, message) ==
  IF Len(ops) > MaxOps THEN rust.error = "TooManyDeltaOps"
  ELSE IF \E i \in DOMAIN ops : TooLarge(ops[i]) THEN rust.error = "PayloadTooLarge"
  ELSE rust = [error |-> NoError, message |-> message]

BothRead(F, ops, message) ==
  /\ DecodeServerPacket(F) = [error |-> NoError, message |-> message]
  /\ RustGets(DecodeServerMessage(F), ops, message)

LEMMA FailureDecoded ==
  ASSUME NEW r, Failed(r), NEW message
  PROVE  Decoded(r, message).error = r.error
BY DEF Decoded, Finish, Check, Failed

\* what either client makes of a reader that has had all operations
LEMMA SnapshotDecoded ==
  ASSUME NEW F, NEW S, NEW V, Gives(F, S, V), NEW r, NEW s, NEW read, NEW ops,
         Got(r, F, Len(F), read, ops, V), ReadsOps(s, ops, r),
         NEW message, NEW other, s = r => other = message
  PROVE  /\ GodotDecoded(r, message) = [error |-> NoError, message |-> message]
         /\ RustGets(Decoded(s, other), ops, message)
<1>1. PICK more : At(r, F, Len(F), more, ops, V)
  BY DEF Got
<1>2. r = ReaderAt(F, Len(F), more, ops) /\ ~ Failed(r) /\ r.error = NoError
  BY <1>1 DEF At, Failed
<1>3. GodotDecoded(r, message) = [error |-> NoError, message |-> message]
  BY <1>2 DEF GodotDecoded
<1>4. Decoded(r, message) = [error |-> NoError, message |-> message]
  <2>1. F \in Seq(S) /\ Len(F) \in 0..Len(F)
    BY DEF Gives
  <2>2. QED BY <1>2, <2>1, FinishAt
<1>5. RustGets(Decoded(s, other), ops, message)
  BY <1>4, FailureDecoded DEF RustGets, ReadsOps
<1>6. QED BY <1>3, <1>5

\* what has been read stays where it is
LEMMA GotKeeps ==
  ASSUME NEW F, NEW V, NEW r, NEW k, NEW read, NEW ops, Got(r, F, k, read, ops, V),
         NEW n \in Nat, n = Len(read)
  PROVE  r.ops = ops /\ \A i \in 1..n : r.read[i] = read[i]
<1>1. PICK more : Extends(more, read) /\ At(r, F, k, more, ops, V)
  BY DEF Got
<1>2. r.read = more /\ r.ops = ops
  BY <1>1 DEF At, ReaderAt, Reader
<1>3. QED BY <1>1, <1>2 DEF Extends

LEMMA HeadsAre ==
  ASSUME NEW F, NEW S, NEW V, Gives(F, S, V), NEW t, t \in {129, 130, 131}, IsHeaded(F, t),
         Bytes(F) >= 4, Bytes(F) \in Nat, NEW head, head = GodotHead(F)
  PROVE  /\ \E read : At(head, F, 3, read, <<>>, V) /\ HeadRead(read, t)
         /\ DecodeServerPacket(F) = CASE t = 129 -> DecodeSnapshot(head)
                                      [] t = 130 -> DecodeMetrics(head)
                                      [] t = 131 -> DecodeSnapshotFragment(head)
         /\ DecodeServerMessage(F) = CASE t = 129 -> ReadDeltaSnapshot(head)
                                       [] t = 130 -> ReadMetrics(head)
                                       [] t = 131 -> ReadSnapshotFragment(head)
<1>1. PICK read : At(head, F, 3, read, <<>>, V) /\ HeadRead(read, t)
  BY HeaderIsRead
<1>2. ReadHeader(NewReader(F)) = head /\ LastRead(head) = t
  BY HeaderIsRead
<1>3. ~ Failed(head) /\ head.read = read
  BY <1>1 DEF At, ReaderAt, Reader
<1>4. head.read[1] = "GW" /\ head.read[2] = 2 /\ head.read[3] = t
  BY <1>1, <1>3 DEF HeadRead
<1>5. ~ (Bytes(F) < 4)
  OBVIOUS
<1>6. DecodeServerPacket(F) =
        CASE head.read[3] = 129 -> DecodeSnapshot(head)
          [] head.read[3] = 130 -> DecodeMetrics(head)
          [] head.read[3] = 131 -> DecodeSnapshotFragment(head)
          [] OTHER -> GodotDecoded(Fail(head, "unknown tag"), NoMessage)
  BY <1>4, <1>5 DEF DecodeServerPacket, GodotHead
<1>7. DecodeServerMessage(F) =
        CASE t = 129 -> ReadDeltaSnapshot(head)
          [] t = 131 -> ReadSnapshotFragment(head)
          [] t = 130 -> ReadMetrics(head)
          [] OTHER -> Decoded(Fail(head, "UnknownMessageTag"), NoMessage)
  BY <1>2, <1>3 DEF DecodeServerMessage, Tag
<1>8. CASE t = 129
  BY <1>1, <1>4, <1>6, <1>7, <1>8
<1>9. CASE t = 130
  BY <1>1, <1>4, <1>6, <1>7, <1>9
<1>10. CASE t = 131
  BY <1>1, <1>4, <1>6, <1>7, <1>10
<1>11. QED BY <1>8, <1>9, <1>10

LEMMA BytesNatural ==
  ASSUME NEW X, Widths(X), NEW s \in Seq(X)
  PROVE  Bytes(s) \in Nat
<1>1. <<>> \in Seq(X)
  OBVIOUS
<1>2. QED BY <1>1, BytesJoin

\* sequence and baseline come after the header
LEMMA FromIsRead ==
  ASSUME NEW F, NEW S, NEW V, Gives(F, S, V), NEW head, NEW read, At(head, F, 3, read, <<>>, V),
         Len(read) = 3, NEW sequence, NEW baseline, F[4] = Field(8, sequence),
         BaselineAt(F, 4, baseline), NEW k, k = 4 + BaselineSize(baseline), k <= Len(F),
         NEW from, from = GodotBaseline(ReadExact(head, 8))
  PROVE  /\ from = ReadBaseline(ReadExact(head, 8))
         /\ \E more : /\ At(from, F, k, more, <<>>, V) /\ more \in Seq(V)
                      /\ Len(more) = 5 /\ more[4] = sequence /\ more[5] = baseline
<1>1. PICK q, r1, r2 : /\ q = ReadExact(head, 8) /\ r1 = Append(read, sequence)
                       /\ r2 = Append(r1, baseline)
  OBVIOUS
<1>2. F[4].width = 8 /\ F[4].value = sequence
  BY DEF Field
<1>3. 4 = 3 + 1 /\ 4 <= Len(F) /\ 8 # 0
  <2>1. Len(F) \in Nat
    BY DEF Gives
  <2>2. QED BY <2>1 DEF BaselineSize
<1>4. At(q, F, 4, r1, <<>>, V) /\ sequence \in V
  BY <1>1, <1>2, <1>3, NextRead
<1>5. At(from, F, k, r2, <<>>, V) /\ ReadBaseline(q) = from /\ baseline \in V
  BY <1>1, <1>4, BaselineIsRead
<1>6. read \in Seq(V)
  BY DEF At
<1>7. r1 \in Seq(V) /\ Len(r1) = 4 /\ r1[4] = sequence
  <2>1. 4 = Len(read) + 1 /\ sequence \in V /\ r1 = Append(read, sequence)
    BY <1>1, <1>4
  <2>2. QED BY ONLY <1>6, <2>1, AppendIs
<1>8. r2 \in Seq(V) /\ Len(r2) = 5 /\ r2[5] = baseline /\ r2[4] = r1[4]
  <2>1. 5 = Len(r1) + 1 /\ 4 \in 1..Len(r1)
    BY <1>7
  <2>2. QED BY <1>1, <1>5, <1>7, <2>1, AppendIs
<1>9. QED BY <1>1, <1>5, <1>7, <1>8

LEMMA DeltaIsRead ==
  ASSUME NEW sequence, NEW baseline, NEW ops, IsOps(ops), NEW F,
         SnapshotFrame(F, 129, sequence, baseline, <<>>, ops), Bytes(F) >= 4, Bytes(F) \in Nat
  PROVE  BothRead(F, ops, DeltaMessage(sequence, baseline, ops))
<1>1. PICK S, V : Gives(F, S, V)
  BY DEF SnapshotFrame
<1>2. PICK head : head = GodotHead(F)
  OBVIOUS
<1>3. IsHeaded(F, 129) /\ F[4] = Field(8, sequence) /\ BaselineAt(F, 4, baseline)
  BY DEF SnapshotFrame
<1>4. PICK k \in Nat : k = 4 + BaselineSize(baseline)
  BY DEF BaselineSize
<1>5. PICK J : J = Joined(ops)
  OBVIOUS
<1>6. PICK m \in Nat : m = k + 1
  BY <1>4
<1>7. F[m] = Field(4, Len(ops)) /\ (\A j \in 1..Len(J) : F[m + j] = J[j]) /\ Len(F) = m + Len(J)
  <2>1. k + Len(<<>>) = k
    BY <1>4
  <2>2. QED BY <1>4, <1>5, <1>6, <2>1 DEF SnapshotFrame
<1>8. k <= Len(F)
  <2>1. Len(J) \in Nat
    BY <1>5, OpsLaidOut
  <2>2. QED BY <1>4, <1>6, <1>7, <2>1
<1>9. PICK read : At(head, F, 3, read, <<>>, V) /\ HeadRead(read, 129)
  BY <1>1, <1>2, <1>3, HeaderIsRead
<1>10. /\ DecodeServerPacket(F) = DecodeSnapshot(head)
       /\ DecodeServerMessage(F) = ReadDeltaSnapshot(head)
  BY <1>1, <1>2, <1>3, HeadsAre
<1>11. PICK q : q = GodotBaseline(ReadExact(head, 8))
  OBVIOUS
<1>12. PICK more : /\ At(q, F, k, more, <<>>, V) /\ more \in Seq(V)
                   /\ Len(more) = 5 /\ more[4] = sequence /\ more[5] = baseline
  BY <1>1, <1>3, <1>4, <1>8, <1>9, <1>11, FromIsRead DEF HeadRead
<1>13. q = ReadBaseline(ReadExact(head, 8))
  BY <1>1, <1>3, <1>4, <1>8, <1>9, <1>11, FromIsRead DEF HeadRead
<1>14. PICK r, s : r = GodotOps(q) /\ s = ReadOps(q)
  OBVIOUS
<1>15. Got(r, F, Len(F), more, ops, V) /\ ReadsOps(s, ops, r)
  <2>1. IsOps(ops) /\ CountedOps(F, m, ops)
    BY <1>5, <1>7 DEF CountedOps
  <2>2. Got(GodotOps(q), F, Len(F), more, ops, V) /\ ReadsOps(ReadOps(q), ops, GodotOps(q))
    BY ONLY <1>1, <1>6, <1>12, <2>1, CountedOpsRead
  <2>3. QED BY <1>14, <2>2
<1>16. r.read[4] = sequence /\ r.read[5] = baseline /\ r.ops = ops
  BY <1>12, <1>15, GotKeeps
<1> DEFINE message == DeltaMessage(sequence, baseline, ops)
           other == DeltaMessage(s.read[4], s.read[5], s.ops)
<1>17. DecodeSnapshot(head) = GodotDecoded(r, message) /\ ReadDeltaSnapshot(head) = Decoded(s, other)
  BY <1>11, <1>13, <1>14, <1>16 DEF DecodeSnapshot, ReadDeltaSnapshot
<1>18. s = r => other = message
  BY <1>16
<1> HIDE DEF message, other
<1>19. /\ GodotDecoded(r, message) = [error |-> NoError, message |-> message]
       /\ RustGets(Decoded(s, other), ops, message)
  BY <1>1, <1>15, <1>18, SnapshotDecoded
<1>20. QED BY <1>10, <1>17, <1>19 DEF BothRead, message

LEMMA FragmentIsRead ==
  ASSUME NEW sequence, NEW baseline, NEW index, NEW count, NEW ops, IsOps(ops), NEW F,
         SnapshotFrame(F, 131, sequence, baseline, <<index, count>>, ops),
         Bytes(F) >= 4, Bytes(F) \in Nat
  PROVE  BothRead(F, ops, FragmentMessage(sequence, baseline, index, count, ops))
<1>1. PICK S, V : Gives(F, S, V)
  BY DEF SnapshotFrame
<1>2. PICK head : head = GodotHead(F)
  OBVIOUS
<1>3. IsHeaded(F, 131) /\ F[4] = Field(8, sequence) /\ BaselineAt(F, 4, baseline)
  BY DEF SnapshotFrame
<1>4. PICK k \in Nat : k = 4 + BaselineSize(baseline)
  BY DEF BaselineSize
<1>5. PICK J, place : J = Joined(ops) /\ place = <<index, count>>
  OBVIOUS
<1>6. PICK a \in Nat, b \in Nat, m \in Nat : a = k + 1 /\ b = a + 1 /\ m = b + 1
  BY <1>4
<1>7. Len(J) \in Nat /\ Len(place) = 2 /\ place[1] = index /\ place[2] = count
  BY <1>5, OpsLaidOut
<1>8. /\ F[a] = Field(2, index) /\ F[b] = Field(2, count) /\ F[m] = Field(4, Len(ops))
      /\ (\A j \in 1..Len(J) : F[m + j] = J[j]) /\ Len(F) = m + Len(J)
  <2>1. /\ \A i \in 1..Len(place) : F[k + i] = Field(2, place[i])
        /\ F[k + Len(place) + 1] = Field(4, Len(ops))
        /\ \A j \in 1..Len(J) : F[k + Len(place) + 1 + j] = J[j]
        /\ Len(F) = k + Len(place) + 1 + Len(J)
    BY <1>4, <1>5 DEF SnapshotFrame
  <2>2. k + Len(place) + 1 = m /\ 1 \in 1..Len(place) /\ 2 \in 1..Len(place) /\ k + 2 = b
    <3>1. PICK l \in Nat : l = Len(place) /\ l = 2
      BY <1>7
    <3>2. k + l + 1 = m /\ 1 \in 1..l /\ 2 \in 1..l /\ k + 2 = b
      BY ONLY <1>6, <3>1
    <3>3. QED BY ONLY <3>1, <3>2
  <2>3. QED BY <1>6, <1>7, <2>1, <2>2
<1>9. k <= Len(F) /\ a <= Len(F) /\ b <= Len(F)
  <2>1. PICK l \in Nat, u \in Nat : l = Len(F) /\ u = Len(J) /\ l = m + u
    BY <1>7, <1>8
  <2>2. m <= l
    BY ONLY <1>6, <2>1
  <2>3. QED BY ONLY <1>6, <2>1, <2>2
<1>10. PICK read : At(head, F, 3, read, <<>>, V) /\ HeadRead(read, 131)
  BY <1>1, <1>2, <1>3, HeaderIsRead
<1>11. /\ DecodeServerPacket(F) = DecodeSnapshotFragment(head)
       /\ DecodeServerMessage(F) = ReadSnapshotFragment(head)
  BY <1>1, <1>2, <1>3, HeadsAre
<1>12. PICK from : from = GodotBaseline(ReadExact(head, 8))
  OBVIOUS
<1>13. PICK more : /\ At(from, F, k, more, <<>>, V) /\ more \in Seq(V)
                   /\ Len(more) = 5 /\ more[4] = sequence /\ more[5] = baseline
  BY <1>1, <1>3, <1>4, <1>9, <1>10, <1>12, FromIsRead DEF HeadRead
<1>14. from = ReadBaseline(ReadExact(head, 8))
  BY <1>1, <1>3, <1>4, <1>9, <1>10, <1>12, FromIsRead DEF HeadRead
<1>15. PICK q1, q, s1, s2 : /\ q1 = ReadExact(from, 2) /\ q = ReadExact(q1, 2)
                            /\ s1 = Append(more, index) /\ s2 = Append(s1, count)
  OBVIOUS
<1>16. /\ F[a].width = 2 /\ F[a].value = index /\ F[b].width = 2 /\ F[b].value = count
  BY <1>8 DEF Field
<1>17. At(q1, F, a, s1, <<>>, V) /\ index \in V
  <2>1. At(from, F, k, more, <<>>, V) /\ a = k + 1 /\ a <= Len(F) /\ 2 # 0
    BY <1>6, <1>9, <1>13
  <2>2. QED BY ONLY <1>1, <1>15, <1>16, <2>1, NextRead
<1>18. At(q, F, b, s2, <<>>, V) /\ count \in V
  <2>1. At(q1, F, a, s1, <<>>, V) /\ b = a + 1 /\ b <= Len(F) /\ 2 # 0
    BY <1>6, <1>9, <1>17
  <2>2. QED BY ONLY <1>1, <1>15, <1>16, <2>1, NextRead
<1>19. /\ s2 \in Seq(V) /\ Len(s2) = 7 /\ s2[4] = sequence /\ s2[5] = baseline
       /\ s2[6] = index /\ s2[7] = count
  <2>1. s1 \in Seq(V) /\ Len(s1) = 6 /\ s1[6] = index /\ s1[4] = more[4] /\ s1[5] = more[5]
    <3>1. 6 = Len(more) + 1 /\ 4 \in 1..Len(more) /\ 5 \in 1..Len(more)
      BY <1>13
    <3>2. more \in Seq(V) /\ index \in V /\ s1 = Append(more, index)
      BY <1>13, <1>15, <1>17
    <3>3. QED BY ONLY <3>1, <3>2, AppendIs
  <2>2. /\ s2 \in Seq(V) /\ Len(s2) = 7 /\ s2[7] = count
        /\ s2[4] = s1[4] /\ s2[5] = s1[5] /\ s2[6] = s1[6]
    <3>1. 7 = Len(s1) + 1 /\ 4 \in 1..Len(s1) /\ 5 \in 1..Len(s1) /\ 6 \in 1..Len(s1)
      BY <2>1
    <3>2. QED BY <1>15, <1>18, <2>1, <3>1, AppendIs
  <2>3. QED BY <1>13, <2>1, <2>2
<1>20. PICK r, s : r = GodotOps(q) /\ s = ReadOps(q)
  OBVIOUS
<1>21. Got(r, F, Len(F), s2, ops, V) /\ ReadsOps(s, ops, r)
  <2>1. IsOps(ops) /\ m = b + 1 /\ CountedOps(F, m, ops)
    BY <1>5, <1>6, <1>8 DEF CountedOps
  <2>2. Got(GodotOps(q), F, Len(F), s2, ops, V) /\ ReadsOps(ReadOps(q), ops, GodotOps(q))
    BY ONLY <1>1, <1>18, <2>1, CountedOpsRead
  <2>3. QED BY <1>20, <2>2
<1>22. /\ r.read[4] = sequence /\ r.read[5] = baseline /\ r.read[6] = index /\ r.read[7] = count
       /\ r.ops = ops
  BY <1>19, <1>21, GotKeeps
<1> DEFINE message == FragmentMessage(sequence, baseline, index, count, ops)
           other == FragmentMessage(s.read[4], s.read[5], s.read[6], s.read[7], s.ops)
<1>23. /\ DecodeSnapshotFragment(head) = GodotDecoded(r, message)
       /\ ReadSnapshotFragment(head) = Decoded(s, other)
  BY <1>12, <1>14, <1>15, <1>20, <1>22 DEF DecodeSnapshotFragment, ReadSnapshotFragment
<1>24. s = r => other = message
  BY <1>22
<1> HIDE DEF message, other
<1>25. /\ GodotDecoded(r, message) = [error |-> NoError, message |-> message]
       /\ RustGets(Decoded(s, other), ops, message)
  BY <1>1, <1>21, <1>24, SnapshotDecoded
<1>26. QED BY <1>11, <1>23, <1>25 DEF BothRead, message

-------------------------------------------------------------------------------
(* Codec: fields of known widths, one after the other *)

Readers(S, V) ==
  [rest : Seq(S), read : Seq(V), ops : {<<>>}, error : {NoError, "UnexpectedEof"}]

LEMMA ReadsTyped ==
  ASSUME NEW S, NEW V, \A field \in S : field.value \in V, <<>> \in V, NEW r \in Readers(S, V), NEW w
  PROVE  ReadExact(r, w) \in Readers(S, V)
<1>1. PICK rest \in Seq(S), read \in Seq(V), error \in {NoError, "UnexpectedEof"} :
        r = [rest |-> rest, read |-> read, ops |-> <<>>, error |-> error]
  BY DEF Readers
<1>2. PICK none, q : none = <<>> /\ q = ReadExact(r, w)
  OBVIOUS
<1>3. r.rest = rest /\ r.read = read /\ none \in V
  BY <1>1, <1>2
<1>4. CASE Failed(r)
  BY <1>4 DEF ReadExact
<1>5. CASE ~ Failed(r) /\ w = 0
  <2>1. Append(read, none) \in Seq(V)
    BY <1>3
  <2>2. PICK more : more = Append(read, none)
    OBVIOUS
  <2>3. q = [r EXCEPT !.read = more]
    BY <1>2, <1>3, <1>5, <2>2 DEF ReadExact
  <2>4. q = [rest |-> rest, read |-> more, ops |-> <<>>, error |-> error]
    BY <1>1, <2>3
  <2>5. q \in Readers(S, V)
    BY <2>1, <2>2, <2>4 DEF Readers
  <2>6. QED BY <1>2, <2>5
<1>6. CASE ~ Failed(r) /\ w # 0 /\ rest # <<>> /\ Head(rest).width = w
  <2>1. PICK v, tail : v = Head(rest).value /\ tail = Tail(rest)
    OBVIOUS
  <2>2. Head(rest) \in S /\ tail \in Seq(S)
    BY <1>6, <2>1
  <2>3. v \in V
    BY <2>1, <2>2
  <2>4. PICK more : more = Append(read, v)
    OBVIOUS
  <2>5. more \in Seq(V)
    BY <2>3, <2>4
  <2>6. q = [r EXCEPT !.rest = tail, !.read = more]
    BY <1>2, <1>3, <1>6, <2>1, <2>4 DEF ReadExact
  <2>7. q = [rest |-> tail, read |-> more, ops |-> <<>>, error |-> error]
    BY <1>1, <2>6
  <2>8. q \in Readers(S, V)
    BY <2>2, <2>5, <2>7 DEF Readers
  <2>9. QED BY <1>2, <2>8
<1>7. CASE ~ Failed(r) /\ w # 0 /\ ~ (rest # <<>> /\ Head(rest).width = w)
  <2>1. q = [r EXCEPT !.error = "UnexpectedEof"]
    BY <1>2, <1>3, <1>7 DEF ReadExact, Fail
  <2>2. q = [rest |-> rest, read |-> read, ops |-> <<>>, error |-> "UnexpectedEof"]
    BY <1>1, <2>1
  <2>3. q \in Readers(S, V)
    BY <2>2 DEF Readers
  <2>4. QED BY <1>2, <2>3
<1>8. QED BY <1>4, <1>5, <1>6, <1>7

WidthsRun(p, r, ws, n) == p[0] = r /\ \A i \in 1..n : p[i] = ReadExact(p[i - 1], ws[i])

ReadsEquation(f, r, ws, n) ==
  f = [s \in SUBSET (1..n) |-> IF s = {} THEN r ELSE ReadExact(f[s \ {Max(s)}], ws[Max(s)])]

LEMMA ReadsRun ==
  ASSUME NEW n \in Nat, NEW r, NEW ws, NEW h, ReadsEquation(h, r, ws, n)
  PROVE  \E p : WidthsRun(p, r, ws, n) /\ h[1..n] = p[n]
<1> DEFINE p == [i \in 0..n |-> h[1..i]]
<1>1. p[0] = r
  <2>1. PICK s : s = 1..0
    OBVIOUS
  <2>2. s = {} /\ s \in SUBSET (1..n)
    BY <2>1
  <2>3. h[s] = r
    BY <2>2 DEF ReadsEquation
  <2>4. QED BY <2>1, <2>3
<1>2. ASSUME NEW i \in 1..n PROVE p[i] = ReadExact(p[i - 1], ws[i])
  <2>1. PICK s : s = 1..i
    OBVIOUS
  <2>2. s \in SUBSET (1..n) /\ s # {} /\ Max(s) = i /\ s \ {i} = 1..(i - 1)
    BY <2>1, FirstTurns
  <2>3. h[s] = ReadExact(h[s \ {i}], ws[i])
    BY <2>2 DEF ReadsEquation
  <2>4. i \in 0..n /\ i - 1 \in 0..n
    OBVIOUS
  <2>5. QED BY <2>1, <2>2, <2>3, <2>4
<1>3. p[n] = h[1..n]
  OBVIOUS
<1> HIDE DEF p
<1>4. QED BY <1>1, <1>2, <1>3 DEF WidthsRun

LEMMA ReadsDefined ==
  ASSUME NEW S, NEW V, \A field \in S : field.value \in V, <<>> \in V, NEW r \in Readers(S, V),
         NEW n \in Nat, NEW B, NEW ws \in [1..n -> B]
  PROVE  \E f : ReadsEquation(f, r, ws, n)
<1> DEFINE A == Readers(S, V)
           step == [q \in A \X B |-> ReadExact(q[1], q[2])]
<1>1. step \in [A \X B -> A]
  <2>1. \A q \in A, w \in B : ReadExact(q, w) \in A
    BY ReadsTyped
  <2> HIDE DEF A
  <2>2. QED BY <2>1
<1>2. \A q \in A, w \in B : step[<<q, w>>] = ReadExact(q, w)
  <2> HIDE DEF A
  <2> QED OBVIOUS
<1> HIDE DEF A, step
<1>3. r \in A
  BY DEF A
<1>4. PICK f : IsLoop(f, ws, r, step, A, B)
  BY <1>1, <1>3, LoopExists
<1>5. DOMAIN ws = 1..n
  OBVIOUS
<1>6. ReadsEquation(f, r, ws, n)
  <2>1. \A s \in SUBSET DOMAIN ws :
          s # {} => step[<<f[s \ {Max(s)}], ws[Max(s)]>>] = ReadExact(f[s \ {Max(s)}], ws[Max(s)])
    BY <1>2, <1>4 DEF IsLoop
  <2>2. QED BY <1>4, <1>5, <2>1 DEF ReadsEquation, IsLoop
<1>7. QED BY <1>6

RunsTo(r, ws, n, q) == \E p : WidthsRun(p, r, ws, n) /\ q = p[n]

ReadThem(r, ws) == FoldLeft(LAMBDA s, w : ReadExact(s, w), r, ws)

LEMMA ReadsAreRun ==
  ASSUME NEW S, NEW V, \A field \in S : field.value \in V, <<>> \in V, NEW r \in Readers(S, V),
         NEW n \in Nat, NEW B, NEW ws \in [1..n -> B]
  PROVE  RunsTo(r, ws, n, ReadThem(r, ws))
<1>1. PICK h : h = CHOOSE k : ReadsEquation(k, r, ws, n)
  OBVIOUS
<1>2. ReadsEquation(h, r, ws, n)
  BY <1>1, ReadsDefined
<1>3. PICK p : WidthsRun(p, r, ws, n) /\ h[1..n] = p[n]
  BY <1>2, ReadsRun
<1>4. DOMAIN ws = 1..n
  OBVIOUS
<1>5. FoldLeft(LAMBDA s, w : ReadExact(s, w), r, ws) = h[1..n]
  <2>1. FoldLeft(LAMBDA s, w : ReadExact(s, w), r, ws) =
          (CHOOSE k : k = [s \in SUBSET DOMAIN ws |-> IF s = {} THEN r
                             ELSE ReadExact(k[s \ {Max(s)}], ws[Max(s)])])[DOMAIN ws]
    BY DEF FoldLeft, MapThenFoldSet
  <2>2. QED BY <1>1, <1>4, <2>1 DEF ReadsEquation
<1>6. QED BY <1>3, <1>5 DEF RunsTo, ReadThem

\* the same when every width is 8
Eights(r, fields) == FoldLeft(LAMBDA s, field : ReadExact(s, 8), r, fields)

LEMMA SameReadsAreRun ==
  ASSUME NEW S, NEW V, \A field \in S : field.value \in V, <<>> \in V, NEW r \in Readers(S, V),
         NEW n \in Nat, NEW B, NEW fields \in [1..n -> B],
         NEW ws \in [1..n -> {8}]
  PROVE  RunsTo(r, ws, n, Eights(r, fields))
<1> DEFINE Same(k) == k = [s \in SUBSET (1..n) |-> IF s = {} THEN r ELSE ReadExact(k[s \ {Max(s)}], 8)]
<1>1. ASSUME NEW k PROVE Same(k) <=> ReadsEquation(k, r, ws, n)
  <2>1. ASSUME NEW s \in SUBSET (1..n), s # {} PROVE ws[Max(s)] = 8
    <3>1. Max(s) \in 1..n
      BY <2>1, LargestInPart
    <3>2. QED BY <3>1
  <2>2. QED BY <2>1 DEF ReadsEquation
<1>3. \E k : Same(k)
  BY <1>1, ReadsDefined
<1>4. PICK h : h = CHOOSE k : Same(k)
  OBVIOUS
<1>5. Same(h)
  BY <1>3, <1>4, Zenon
<1>6. PICK p : WidthsRun(p, r, ws, n) /\ h[1..n] = p[n]
  <2>1. ReadsEquation(h, r, ws, n)
    BY <1>1, <1>5
  <2>2. n \in Nat
    OBVIOUS
  <2>3. QED BY ONLY <2>1, <2>2, ReadsRun
<1>7. DOMAIN fields = 1..n
  OBVIOUS
<1>8. FoldLeft(LAMBDA s, field : ReadExact(s, 8), r, fields) = h[1..n]
  <2>1. FoldLeft(LAMBDA s, field : ReadExact(s, 8), r, fields) =
          (CHOOSE k : k = [s \in SUBSET DOMAIN fields |-> IF s = {} THEN r
                             ELSE ReadExact(k[s \ {Max(s)}], 8)])[DOMAIN fields]
    BY DEF FoldLeft, MapThenFoldSet
  <2>2. QED BY <1>4, <1>7, <2>1, Zenon
<1>9. QED BY <1>6, <1>8 DEF RunsTo, Eights

LEMMA AtTyped ==
  ASSUME NEW F, NEW S, NEW V, Gives(F, S, V), NEW r, NEW k, NEW read, At(r, F, k, read, <<>>, V)
  PROVE  r \in Readers(S, V)
<1>1. PICK rest : rest = SubSeq(F, k + 1, Len(F))
  OBVIOUS
<1>2. rest \in Seq(S)
  <2>1. k \in 0..Len(F) /\ F \in Seq(S)
    BY DEF At, Gives
  <2>2. PICK n \in Nat : n = Len(F)
    BY <2>1
  <2>3. QED BY <1>1, <2>1, <2>2
<1>3. r = [rest |-> rest, read |-> read, ops |-> <<>>, error |-> NoError] /\ read \in Seq(V)
  BY <1>1 DEF At, ReaderAt, Reader
<1>4. QED BY <1>2, <1>3 DEF Readers

\* more has what was read and then the values of the next fields of F.
Values(more, read, F, k, n) ==
  /\ Len(more) = Len(read) + n /\ Extends(more, read)
  /\ \A i \in 1..n : more[Len(read) + i] = F[k + i].value

\* Every field is there: so all are read.
LEMMA FieldsRead ==
  ASSUME NEW F, NEW S, NEW V, Gives(F, S, V), NEW r, NEW k, NEW read, At(r, F, k, read, <<>>, V),
         NEW n \in Nat, NEW ws, \A i \in 1..n : ws[i] # 0 /\ F[k + i].width = ws[i],
         k + n <= Len(F), NEW p, WidthsRun(p, r, ws, n)
  PROVE  \E more : At(p[n], F, k + n, more, <<>>, V) /\ Values(more, read, F, k, n)
<1> DEFINE Good(i) == \E more : At(p[i], F, k + i, more, <<>>, V) /\ Values(more, read, F, k, i)
           C == {i \in 0..n : ~ Good(i)}
<1>1. k \in Nat /\ Len(F) \in Nat /\ read \in Seq(V)
  BY DEF At, Gives
<1>2. Good(0)
  <2>1. k + 0 = k /\ p[0] = r
    BY <1>1 DEF WidthsRun
  <2>2. Values(read, read, F, k, 0)
    BY <1>1 DEF Values, Extends
  <2>3. QED BY <2>1, <2>2
<1>3. ASSUME NEW i \in 1..n, Good(i - 1) PROVE Good(i)
  <2>1. PICK j \in Nat, a \in Nat, b \in Nat : j = i - 1 /\ a = k + j /\ b = k + i
    BY <1>1
  <2>2. PICK more : At(p[j], F, a, more, <<>>, V) /\ Values(more, read, F, k, j)
    BY <1>3, <2>1
  <2>3. b = a + 1 /\ b <= Len(F)
    BY <1>1, <2>1
  <2>4. PICK v, most : v = F[b].value /\ most = Append(more, v)
    OBVIOUS
  <2>5. p[i] = ReadExact(p[j], ws[i]) /\ ws[i] # 0 /\ F[b].width = ws[i]
    BY <2>1 DEF WidthsRun
  <2>6. At(p[i], F, b, most, <<>>, V) /\ v \in V
    <3>1. Gives(F, S, V)
      OBVIOUS
    <3>2. QED BY ONLY <2>2, <2>3, <2>4, <2>5, <3>1, NextRead
  <2>7. Values(most, read, F, k, i)
    <3>1. more \in Seq(V)
      BY <2>2 DEF At
    <3>2. most \in Seq(V) /\ Extends(most, more)
      BY <2>4, <2>6, <3>1, AppendExtends
    <3>3. PICK l \in Nat : l = Len(read)
      BY <1>1
    <3>4. Len(more) = l + j /\ Extends(more, read) /\ \A h \in 1..j : more[l + h] = F[k + h].value
      BY <2>2, <3>3 DEF Values
    <3>5. l + i = Len(more) + 1
      BY <2>1, <3>4
    <3>6. Len(most) = l + i /\ most[l + i] = v /\ \A h \in 1..(l + j) : most[h] = more[h]
      <4>1. Len(more) = l + j
        BY <3>4
      <4>2. QED BY ONLY <2>4, <2>6, <3>1, <3>5, <4>1, AppendIs
    <3>7. ASSUME NEW h \in 1..i PROVE most[l + h] = F[k + h].value
      <4>1. CASE h = i
        BY <2>1, <2>4, <3>6, <4>1
      <4>2. CASE h # i
        <5>1. h \in 1..j /\ l + h \in 1..(l + j)
          BY <2>1, <4>2
        <5>2. QED BY <3>4, <3>6, <5>1
      <4>3. QED BY <4>1, <4>2
    <3>8. Extends(most, read)
      BY <1>1, <3>1, <3>2, <3>4, ExtendsTransitive
    <3>9. QED BY <3>3, <3>6, <3>7, <3>8 DEF Values
  <2>8. QED BY <2>1, <2>6, <2>7
<1> HIDE DEF Good
<1>4. C = {}
  <2>1. C \subseteq 0..n /\ 0 \notin C
    BY <1>2
  <2>2. ASSUME NEW i \in 1..n, i \in C PROVE i - 1 \in C
    <3>1. i - 1 \in 0..n
      OBVIOUS
    <3>2. QED BY <1>3, <2>2, <3>1
  <2> HIDE DEF C
  <2>3. QED BY <2>1, <2>2, NoFirstFailure
<1>5. n \in 0..n
  OBVIOUS
<1>6. Good(n)
  BY <1>4, <1>5
<1>7. QED BY <1>6 DEF Good

-------------------------------------------------------------------------------
(* Codec: metrics *)

LEMMA GivesValues ==
  ASSUME NEW S, NEW F \in Seq(S)
  PROVE  \E V : Gives(F, S, V)
<1>1. PICK V : V = {field.value : field \in S} \cup {<<>>, NoBaseline}
  OBVIOUS
<1>2. \A field \in S : field.value \in V
  BY <1>1
<1>3. <<>> \in V /\ NoBaseline \in V
  BY <1>1
<1>4. QED BY <1>2, <1>3 DEF Gives

LEMMA BytesOfEqual ==
  ASSUME NEW n \in Nat, NEW w \in Nat, NEW S, NEW s \in [1..n -> S], \A i \in 1..n : s[i].width = w
  PROVE  Bytes(s) = w * n
<1>1. PICK X : X = {s[i] : i \in 1..n}
  OBVIOUS
<1>2. Widths(X) /\ s \in [1..n -> X]
  BY <1>1 DEF Widths
<1> DEFINE q == [i \in 0..n |-> w * i]
<1>3. SumsUp(q, s, n)
  <2>1. q[0] = 0 /\ \A i \in 0..n : q[i] \in Nat
    OBVIOUS
  <2>2. ASSUME NEW i \in 1..n PROVE q[i] = q[i - 1] + s[i].width
    <3>1. q[i] = w * i /\ q[i - 1] = w * (i - 1)
      OBVIOUS
    <3>2. w * i = w * (i - 1) + w
      OBVIOUS
    <3>3. QED BY <3>1, <3>2
  <2> HIDE DEF q
  <2>3. QED BY <2>1, <2>2 DEF SumsUp
<1>4. q[n] = w * n
  OBVIOUS
<1> HIDE DEF q
<1>5. QED BY <1>2, <1>3, <1>4, BytesAre

MetricsFrame(F, values) ==
  /\ \E S, V : Gives(F, S, V)
  /\ IsHeaded(F, 130) /\ Len(F) = 14
  /\ \A i \in 1..11 : F[3 + i] = Field(8, values[MetricsFields[i]])

LEMMA MetricsIsWritten ==
  ASSUME NEW m, m.kind = "Metrics", NEW F, F = Encode(m)
  PROVE  MetricsFrame(F, m.values) /\ Bytes(F) = EncodedMessageLen(m) /\ Bytes(F) = 92
<1>1. PICK a, b, c, t : /\ a = Field(2, "GW") /\ b = Field(1, 2) /\ c = Field(1, 130)
                        /\ t = [i \in 1..11 |-> Field(8, m.values[MetricsFields[i]])]
  OBVIOUS
<1>2. a.width = 2 /\ b.width = 1 /\ c.width = 1 /\ \A i \in 1..11 : t[i].width = 8
  BY <1>1 DEF Field
<1>3. F = <<a, b, c>> \o t
  <2>1. DOMAIN MetricsFields = 1..11
    BY DEF MetricsFields
  <2>2. Header(m.kind) = <<a, b, c>>
    BY <1>1 DEF Header, Tag
  <2>3. F = Header(m.kind) \o [i \in DOMAIN MetricsFields |-> Field(8, m.values[MetricsFields[i]])]
    BY DEF Encode
  <2>4. QED BY <1>1, <2>1, <2>2, <2>3
<1>4. PICK X : X = {a, b, c} \cup {t[i] : i \in 1..11}
  OBVIOUS
<1>5. Widths(X)
  BY <1>2, <1>4 DEF Widths
<1>6. t = [i \in 1..11 |-> t[i]]
  BY <1>1
<1>7. t \in [1..11 -> X] /\ t \in Seq(X) /\ Len(t) = 11
  <2>1. t \in [1..11 -> X]
    BY <1>4, <1>6
  <2>2. PICK n \in Nat : n = 11
    OBVIOUS
  <2>3. t \in [1..n -> X]
    BY <2>1, <2>2
  <2>4. t \in Seq(X) /\ Len(t) = n
    BY ONLY <2>3, n \in Nat
  <2>5. QED BY <2>1, <2>2, <2>4
<1>8. PICK h : h = <<a, b, c>>
  OBVIOUS
<1>9. h \in Seq(X) /\ Len(h) = 3 /\ h[1] = a /\ h[2] = b /\ h[3] = c
  BY <1>4, <1>8
<1>10. F \in Seq(X) /\ Joins(F, h, t)
  BY <1>3, <1>5, <1>7, <1>8, <1>9, JoinsAre
<1>11. Bytes(h) = 4
  <2>1. Bytes(h) = h[1].width + h[2].width + h[3].width
    BY <1>5, <1>9, BytesOfFew
  <2>2. QED BY <1>2, <1>9, <2>1
<1>12. Bytes(t) = 88
  <2>1. 11 \in Nat /\ 8 \in Nat
    OBVIOUS
  <2>2. Bytes(t) = 8 * 11
    BY <1>2, <1>7, <2>1, BytesOfEqual
  <2>3. QED BY <2>2
<1>13. Bytes(F) = 92
  BY <1>10, <1>11, <1>12 DEF Joins
<1>14. EncodedMessageLen(m) = 92
  <2>1. EncodedMessageLen(m) = 4 + 11 * 8
    <3>1. m.kind # "AckSnapshot" /\ m.kind # "Input"
      OBVIOUS
    <3>2. QED BY <3>1, Zenon DEF EncodedMessageLen
  <2>2. QED BY <2>1
<1>15. F[1] = a /\ F[2] = b /\ F[3] = c /\ Len(F) = 14 /\ \A i \in 1..11 : F[3 + i] = t[i]
  BY <1>7, <1>9, <1>10 DEF Joins
<1>16. IsHeaded(F, 130)
  BY <1>1, <1>15 DEF IsHeaded
<1>17. \E S, V : Gives(F, S, V)
  BY <1>10, GivesValues
<1>18. \A i \in 1..11 : t[i] = Field(8, m.values[MetricsFields[i]])
  BY <1>1
<1>19. QED BY <1>13, <1>14, <1>15, <1>16, <1>17, <1>18 DEF MetricsFrame

LEMMA MetricsIsRead ==
  ASSUME NEW values, NEW F, MetricsFrame(F, values), Bytes(F) >= 4, Bytes(F) \in Nat
  PROVE  BothRead(F, <<>>, MetricsMessage([field \in Range(MetricsFields) |-> values[field]]))
<1>1. PICK S, V : Gives(F, S, V)
  BY DEF MetricsFrame
<1>2. PICK head : head = GodotHead(F)
  OBVIOUS
<1>3. IsHeaded(F, 130) /\ Len(F) = 14
  BY DEF MetricsFrame
<1>4. PICK read : At(head, F, 3, read, <<>>, V) /\ HeadRead(read, 130)
  BY <1>1, <1>2, <1>3, HeaderIsRead
<1>5. DecodeServerPacket(F) = DecodeMetrics(head) /\ DecodeServerMessage(F) = ReadMetrics(head)
  BY <1>1, <1>2, <1>3, HeadsAre
<1>6. PICK fields : fields = MetricsFields
  OBVIOUS
<1>7. GodotMetricsFields = fields /\ DOMAIN fields = 1..11
      /\ fields \in [1..11 -> Range(fields)] /\ Range(fields) = {fields[i] : i \in 1..11}
  <2>1. GodotMetricsFields = fields
    BY <1>6 DEF MetricsFields, GodotMetricsFields
  <2>2. DOMAIN fields = 1..11
    BY <1>6 DEF MetricsFields
  <2>3. Range(fields) = {fields[i] : i \in 1..11}
    BY <2>2 DEF Range
  <2>4. fields = [i \in 1..11 |-> fields[i]]
    BY <1>6 DEF MetricsFields
  <2>5. QED BY <2>1, <2>2, <2>3, <2>4
<1>8. head \in Readers(S, V) /\ (\A field \in S : field.value \in V) /\ <<>> \in V /\ 11 \in Nat
  BY <1>1, <1>4, AtTyped DEF Gives
<1>9. PICK ws : ws = [i \in 1..11 |-> 8]
  OBVIOUS
<1>10. PICK p : WidthsRun(p, head, ws, 11) /\ Eights(head, fields) = p[11]
  <2>1. ws \in [1..11 -> {8}] /\ fields \in [1..11 -> Range(fields)]
    BY <1>7, <1>9
  <2>2. RunsTo(head, ws, 11, Eights(head, fields))
    BY ONLY <1>8, <2>1, SameReadsAreRun
  <2>3. QED BY <2>2 DEF RunsTo
<1>11. PICK r : r = p[11]
  OBVIOUS
<1>12. \A i \in 1..11 : F[3 + i] = Field(8, values[fields[i]])
  BY <1>6 DEF MetricsFrame
<1>13. PICK more : At(r, F, 14, more, <<>>, V) /\ Values(more, read, F, 3, 11)
  <2>1. \A i \in 1..11 : ws[i] # 0 /\ F[3 + i].width = ws[i]
    BY <1>9, <1>12 DEF Field
  <2>2. 3 + 11 <= Len(F) /\ 3 + 11 = 14
    BY <1>3
  <2>3. \E more : At(p[11], F, 3 + 11, more, <<>>, V) /\ Values(more, read, F, 3, 11)
    BY ONLY <1>1, <1>4, <1>8, <1>10, <2>1, <2>2, FieldsRead
  <2>4. QED BY <1>11, <2>2, <2>3
<1>14. r = ReaderAt(F, Len(F), more, <<>>) /\ ~ Failed(r) /\ r.error = NoError /\ r.read = more
  BY <1>3, <1>13 DEF At, Failed, ReaderAt, Reader
<1>15. ASSUME NEW field \in Range(fields) PROVE r.read[3 + PlaceIn(fields, field)] = values[field]
  <2>1. \E i \in DOMAIN fields : fields[i] = field
    BY <1>7
  <2>2. PICK i \in 1..11 : i = PlaceIn(fields, field) /\ fields[i] = field
    BY <1>7, <2>1 DEF PlaceIn
  <2>3. Len(read) = 3
    BY <1>4 DEF HeadRead
  <2>4. more[3 + i] = F[3 + i].value
    BY <1>13, <2>3 DEF Values
  <2>5. F[3 + i].value = values[field]
    BY <1>12, <2>2 DEF Field
  <2>6. QED BY <1>14, <2>2, <2>4, <2>5
<1>16. PICK message : message = MetricsMessage([field \in Range(fields) |-> values[field]])
  OBVIOUS
<1>17. MetricsMessage([field \in Range(fields) |-> r.read[3 + PlaceIn(fields, field)]]) = message
  BY <1>15, <1>16
<1>18. DecodeMetrics(head) = GodotDecoded(r, message) /\ ReadMetrics(head) = Decoded(r, message)
  <2>1. FoldLeft(LAMBDA s, field : ReadExact(s, 8), head, GodotMetricsFields) = r
    BY <1>7, <1>10, <1>11 DEF Eights
  <2>2. FoldLeft(LAMBDA s, field : ReadExact(s, 8), head, MetricsFields) = r
    BY <1>6, <1>10, <1>11 DEF Eights
  <2>3. DecodeMetrics(head) = GodotDecoded(r, message)
    BY <1>7, <1>17, <2>1 DEF DecodeMetrics
  <2>4. ReadMetrics(head) = Decoded(r, message)
    BY <1>6, <1>17, <2>2 DEF ReadMetrics
  <2>5. QED BY <2>3, <2>4
<1>19. GodotDecoded(r, message) = [error |-> NoError, message |-> message]
  BY <1>14 DEF GodotDecoded
<1>20. Decoded(r, message) = [error |-> NoError, message |-> message]
  <2>1. F \in Seq(S) /\ Len(F) \in 0..Len(F)
    BY <1>1, <1>3 DEF Gives
  <2>2. QED BY <1>14, <2>1, FinishAt
<1>21. RustGets(Decoded(r, message), <<>>, message)
  <2>1. ~ (Len(<<>>) > MaxOps) /\ DOMAIN <<>> = {}
    BY CodecAssumption
  <2>2. QED BY <1>20, <2>1 DEF RustGets
<1>22. QED BY <1>5, <1>6, <1>16, <1>18, <1>19, <1>21 DEF BothRead
-------------------------------------------------------------------------------
(* Codec: the sides agree on a message *)

\* what SidesAgree asks of the Rust client
RustAgrees(m, rust) ==
  IF m.kind # "Metrics" /\ Len(m.ops) > MaxOps
    THEN rust.error = "TooManyDeltaOps"
    ELSE IF \E payload \in PayloadsOf(m) : Bytes(payload) > MaxPayloadLen
           THEN rust.error = "PayloadTooLarge"
           ELSE rust = [error |-> NoError, message |-> m]

LEMMA LargePayloads ==
  ASSUME NEW m, m.kind \in {"SnapshotDelta", "SnapshotFragment"}, IsOps(m.ops)
  PROVE  (\E payload \in PayloadsOf(m) : Bytes(payload) > MaxPayloadLen)
           <=> \E i \in DOMAIN m.ops : TooLarge(m.ops[i])
<1>1. PICK ops : ops = m.ops
  OBVIOUS
<1>2. PayloadsOf(m) = {op.payload : op \in {op \in Range(ops) : HasPayload(op)}}
  <2>1. m.kind # "Input" /\ m.kind \notin {"AckSnapshot", "Metrics"}
    OBVIOUS
  <2>2. QED BY <1>1, <2>1 DEF PayloadsOf
<1>3. Range(ops) = {ops[i] : i \in DOMAIN ops}
  BY DEF Range
<1>4. ASSUME NEW i \in DOMAIN ops, HasPayload(ops[i])
      PROVE  Bytes(ops[i].payload) > MaxPayloadLen <=> TooLarge(ops[i])
  <2>1. PICK op : op = ops[i] /\ HasPayload(op)
    BY <1>4
  <2>2. IsOp(op)
    BY <1>1, <2>1 DEF IsOps
  <2>3. IsPayload(op.payload)
    BY <2>1, <2>2, OpFieldsAre
  <2>4. PICK n \in Nat, l \in Nat : n = Bytes(op.payload) /\ l = MaxPayloadLen
    BY <2>3, BytesFieldsAre, CodecAssumption
  <2>5. n > l <=> ~ (n <= l)
    BY ONLY <2>4
  <2>6. QED BY <2>1, <2>4, <2>5 DEF TooLarge
<1>5. ASSUME NEW payload \in PayloadsOf(m), Bytes(payload) > MaxPayloadLen
      PROVE  \E i \in DOMAIN ops : TooLarge(ops[i])
  <2>1. PICK i \in DOMAIN ops : HasPayload(ops[i]) /\ payload = ops[i].payload
    BY <1>2, <1>3
  <2>2. QED BY <1>4, <1>5, <2>1
<1>6. ASSUME NEW i \in DOMAIN ops, TooLarge(ops[i])
      PROVE  \E payload \in PayloadsOf(m) : Bytes(payload) > MaxPayloadLen
  <2>1. HasPayload(ops[i])
    BY <1>6 DEF TooLarge
  <2>2. ops[i].payload \in PayloadsOf(m)
    BY <1>2, <1>3, <2>1
  <2>3. QED BY <1>4, <1>6, <2>1, <2>2
<1>7. QED BY <1>1, <1>5, <1>6

LEMMA RustGetsAgrees ==
  ASSUME NEW m, m.kind \in {"SnapshotDelta", "SnapshotFragment"}, IsOps(m.ops),
         NEW rust, RustGets(rust, m.ops, m)
  PROVE  RustAgrees(m, rust)
<1>1. m.kind # "Metrics"
  OBVIOUS
<1>2. QED BY <1>1, LargePayloads DEF RustGets, RustAgrees

\* what the sides make of a message that was written as F
Agreed(F, m) ==
  /\ Bytes(F) = EncodedMessageLen(m)
  /\ DecodeServerPacket(F) = [error |-> NoError, message |-> m]
  /\ RustAgrees(m, DecodeServerMessage(F))

LEMMA ServerMessagesAgree ==
  ASSUME NEW m, IsServerMessage(m), NEW F, F = Encode(m)
  PROVE  Agreed(F, m)
<1>1. CASE m.kind = "Metrics" /\ m = MetricsMessage([field \in Range(MetricsFields) |-> m.values[field]])
  <2>1. MetricsFrame(F, m.values) /\ Bytes(F) = EncodedMessageLen(m) /\ Bytes(F) = 92
    BY <1>1, MetricsIsWritten
  <2>2. Bytes(F) >= 4 /\ Bytes(F) \in Nat
    BY <2>1
  <2>3. PICK values : values = m.values
    OBVIOUS
  <2>4. BothRead(F, <<>>, MetricsMessage([field \in Range(MetricsFields) |-> values[field]]))
    BY <2>1, <2>2, <2>3, MetricsIsRead
  <2>5. BothRead(F, <<>>, m)
    BY <1>1, <2>3, <2>4
  <2>6. /\ DecodeServerPacket(F) = [error |-> NoError, message |-> m]
        /\ RustGets(DecodeServerMessage(F), <<>>, m)
    BY <2>5 DEF BothRead
  <2>7. ~ (Len(<<>>) > MaxOps) /\ DOMAIN <<>> = {}
    BY CodecAssumption
  <2>8. DecodeServerMessage(F) = [error |-> NoError, message |-> m]
    BY <2>6, <2>7 DEF RustGets
  <2>9. PayloadsOf(m) = {}
    <3>1. m.kind # "Input"
      BY <1>1
    <3>2. QED BY <1>1, <3>1 DEF PayloadsOf
  <2>10. QED BY <1>1, <2>1, <2>6, <2>8, <2>9 DEF Agreed, RustAgrees
<1>2. CASE m.kind = "SnapshotDelta" /\ m = DeltaMessage(m.sequence, m.baseline, m.ops) /\ IsOps(m.ops)
  <2>1. PICK s, b, ops : s = m.sequence /\ b = m.baseline /\ ops = m.ops
    OBVIOUS
  <2>2. m = DeltaMessage(s, b, ops) /\ IsOps(ops)
    BY <1>2, <2>1
  <2>3. /\ SnapshotFrame(F, 129, s, b, <<>>, ops) /\ Bytes(F) = EncodedMessageLen(m)
        /\ Bytes(F) >= 4 /\ Bytes(F) \in Nat
    BY ONLY <2>2, F = Encode(m), DeltaIsWritten
  <2>4. BothRead(F, ops, m)
    BY ONLY <2>2, <2>3, DeltaIsRead
  <2>5. /\ DecodeServerPacket(F) = [error |-> NoError, message |-> m]
        /\ RustGets(DecodeServerMessage(F), m.ops, m)
    BY <2>1, <2>4 DEF BothRead
  <2>6. RustAgrees(m, DecodeServerMessage(F))
    BY <1>2, <2>5, RustGetsAgrees
  <2>7. QED BY <2>3, <2>5, <2>6 DEF Agreed
<1>3. CASE /\ m.kind = "SnapshotFragment"
           /\ m = FragmentMessage(m.sequence, m.baseline, m.fragment_index, m.fragment_count, m.ops)
           /\ IsOps(m.ops)
  <2>1. PICK s, b, i, n, ops : /\ s = m.sequence /\ b = m.baseline /\ ops = m.ops
                               /\ i = m.fragment_index /\ n = m.fragment_count
    OBVIOUS
  <2>2. m = FragmentMessage(s, b, i, n, ops) /\ IsOps(ops)
    BY <1>3, <2>1
  <2>3. /\ SnapshotFrame(F, 131, s, b, <<i, n>>, ops) /\ Bytes(F) = EncodedMessageLen(m)
        /\ Bytes(F) >= 4 /\ Bytes(F) \in Nat
    BY ONLY <2>2, F = Encode(m), FragmentIsWritten
  <2>4. BothRead(F, ops, m)
    BY ONLY <2>2, <2>3, FragmentIsRead
  <2>5. /\ DecodeServerPacket(F) = [error |-> NoError, message |-> m]
        /\ RustGets(DecodeServerMessage(F), m.ops, m)
    BY <2>1, <2>4 DEF BothRead
  <2>6. RustAgrees(m, DecodeServerMessage(F))
    BY <1>3, <2>5, RustGetsAgrees
  <2>7. QED BY <2>3, <2>5, <2>6 DEF Agreed
<1>4. QED BY <1>1, <1>2, <1>3 DEF IsServerMessage

-------------------------------------------------------------------------------
(* Godot: a client's input *)

LEMMA PositionIs ==
  ASSUME NEW position, NEW X, Widths(X), NEW t, t = PositionFields(position),
         \A i \in 1..3 : Field(4, position[i]) \in X
  PROVE  t \in Seq(X) /\ Len(t) = 3 /\ Bytes(t) = 12 /\ \A i \in 1..3 : t[i] = Field(4, position[i])
<1>1. PICK n \in Nat : n = 3
  OBVIOUS
<1>2. \A i \in 1..n : t[i] = Field(4, position[i]) /\ t[i].width = 4
  BY <1>1 DEF PositionFields, Field
<1>3. t \in [1..n -> X]
  <2>1. t = [i \in 1..n |-> Field(4, position[i])]
    BY <1>1 DEF PositionFields
  <2>2. \A i \in 1..n : Field(4, position[i]) \in X
    BY <1>1
  <2>3. QED BY <2>1, <2>2
<1>4. t \in Seq(X) /\ Len(t) = n
  BY ONLY <1>3, n \in Nat
<1>5. Bytes(t) = 4 * n
  <2>1. 4 \in Nat
    OBVIOUS
  <2>2. QED BY ONLY <1>2, <1>3, <2>1, n \in Nat, BytesOfEqual
<1>6. QED BY <1>1, <1>2, <1>4, <1>5

LEMMA InputIs ==
  ASSUME NEW position, NEW yaw, NEW fire, NEW P, P = InputPayload(position, yaw, fire)
  PROVE  /\ P[1] = Field(4, "GWCI") /\ P[2] = Field(1, 2)
         /\ \A i \in 1..3 : P[2 + i] = Field(4, position[i])
         /\ P[6] = Field(4, yaw) /\ P[7] = Field(1, IF fire THEN 1 ELSE 0)
         /\ Bytes(P) = 22
<1>1. PICK a, b, c, d, t, h, e : /\ a = Field(4, "GWCI") /\ b = Field(1, 2)
                              /\ c = Field(4, yaw) /\ d = Field(1, IF fire THEN 1 ELSE 0)
                              /\ t = PositionFields(position)
                              /\ h = <<a, b>> /\ e = <<c, d>>
  OBVIOUS
<1>2. PICK X : X = {a, b, c, d} \cup {Field(4, position[i]) : i \in 1..3}
  OBVIOUS
<1>3. Widths(X)
  BY <1>1, <1>2 DEF Widths, Field
<1>4. t \in Seq(X) /\ Len(t) = 3 /\ Bytes(t) = 12 /\ \A i \in 1..3 : t[i] = Field(4, position[i])
  <2>1. t = PositionFields(position) /\ \A i \in 1..3 : Field(4, position[i]) \in X
    BY <1>1, <1>2
  <2>2. QED BY ONLY <1>3, <2>1, PositionIs
<1>5. h \in Seq(X) /\ Len(h) = 2 /\ h[1] = a /\ h[2] = b
  BY <1>1, <1>2
<1>6. e \in Seq(X) /\ Len(e) = 2 /\ e[1] = c /\ e[2] = d
  BY <1>1, <1>2
<1>7. PICK u : u = h \o t
  OBVIOUS
<1>8. P = u \o e
  BY <1>1, <1>7 DEF InputPayload
<1>9. u \in Seq(X) /\ Joins(u, h, t)
  BY <1>3, <1>4, <1>5, <1>7, JoinsAre
<1>10. Joins(P, u, e)
  BY <1>3, <1>6, <1>8, <1>9, JoinsAre
<1>11. Bytes(h) = 5 /\ Bytes(e) = 5
  <2>1. a.width = 4 /\ b.width = 1 /\ c.width = 4 /\ d.width = 1
    BY <1>1 DEF Field
  <2>2. Bytes(h) = h[1].width + h[2].width /\ Bytes(e) = e[1].width + e[2].width
    BY <1>3, <1>5, <1>6, BytesOfFew
  <2>3. QED BY <1>5, <1>6, <2>1, <2>2
<1>12. Len(u) = 5 /\ u[1] = a /\ u[2] = b /\ (\A i \in 1..3 : u[2 + i] = t[i]) /\ Bytes(u) = 17
  BY <1>4, <1>5, <1>9, <1>11 DEF Joins
<1>13. /\ \A i \in 1..5 : P[i] = u[i]
       /\ P[5 + 1] = c /\ P[5 + 2] = d /\ Bytes(P) = 22
  BY <1>6, <1>10, <1>11, <1>12 DEF Joins
<1>14. P[1] = a /\ P[2] = b
  BY <1>12, <1>13
<1>15. ASSUME NEW i \in 1..3 PROVE P[2 + i] = Field(4, position[i])
  <2>1. 2 + i \in 1..5
    OBVIOUS
  <2>2. QED BY <1>4, <1>12, <1>13, <2>1
<1>16. P[6] = c /\ P[7] = d
  BY <1>13
<1>17. QED BY <1>1, <1>13, <1>14, <1>15, <1>16

LEMMA InputsAreSeen ==
  ASSUME NEW position, IsPosition(position), NEW yaw, NEW fire \in BOOLEAN
  PROVE  ParseClientInput(InputPayload(position, yaw, fire)) =
           [position |-> position, yaw |-> yaw, fire |-> fire]
<1>1. PICK P : P = InputPayload(position, yaw, fire)
  OBVIOUS
<1>2. /\ P[1] = Field(4, "GWCI") /\ P[2] = Field(1, 2)
      /\ \A i \in 1..3 : P[2 + i] = Field(4, position[i])
      /\ P[6] = Field(4, yaw) /\ P[7] = Field(1, IF fire THEN 1 ELSE 0)
      /\ Bytes(P) = 22
  BY <1>1, InputIs
<1>3. P[2].value = 2 /\ P[6].value = yaw /\ P[7].value = (IF fire THEN 1 ELSE 0)
  BY <1>2 DEF Field
<1>4. [i \in 1..3 |-> P[2 + i].value] = position
  <2>1. \A i \in 1..3 : P[2 + i].value = position[i]
    BY <1>2 DEF Field
  <2>2. QED BY <2>1 DEF IsPosition
<1>5. (P[2].value >= 2 /\ Bytes(P) > 21 /\ P[7].value % 2 = 1) = fire
  <2>1. P[2].value >= 2 /\ Bytes(P) > 21
    BY <1>2, <1>3
  <2>2. P[7].value % 2 = 1 <=> fire
    <3>1. CASE fire
      <4>1. P[7].value = 1
        BY <1>3, <3>1
      <4>2. 1 % 2 = 1
        OBVIOUS
      <4>3. QED BY <3>1, <4>1, <4>2
    <3>2. CASE ~ fire
      <4>1. P[7].value = 0
        BY <1>3, <3>2
      <4>2. 0 % 2 = 0
        OBVIOUS
      <4>3. QED BY <3>2, <4>1, <4>2
    <3>3. QED BY <3>1, <3>2
  <2>3. fire = TRUE \/ fire = FALSE
    OBVIOUS
  <2>4. QED BY <2>1, <2>2, <2>3, Zenon
<1>6. ~ (Bytes(P) < 21 \/ P[1] # Field(4, "GWCI") \/ P[2].value \notin {1, 2})
  BY <1>2, <1>3
<1>7. ParseClientInput(P) =
        [position |-> [i \in 1..3 |-> P[2 + i].value], yaw |-> P[6].value,
         fire |-> /\ P[2].value >= 2
                  /\ Bytes(P) > 21 /\ P[7].value % 2 = 1]
  BY <1>6 DEF ParseClientInput
<1>8. QED BY <1>1, <1>3, <1>4, <1>5, <1>7

-------------------------------------------------------------------------------
(* Godot: what a client may know of a demo entity *)

\* the fields of an entity's payload, of which those past the ninth depend on its tier
DemoFields(F, p) ==
  /\ F[1] = Field(4, "GWPD") /\ F[2] = Field(1, 1) /\ F[3] = Field(1, p.kind)
  /\ F[4] = Field(1, p.team) /\ F[5] = Field(1, p.lod)
  /\ \A i \in 1..3 : F[5 + i] = Field(4, p.position[i])
  /\ F[9] = Field(4, p.yaw)
  /\ p.lod \in {0, 1} => Len(F) >= 10 /\ F[10] = Field(4, p.radius)
  /\ p.lod = 0 => Len(F) = 12 /\ F[11] = Field(4, p.phase) /\ F[12] = Field(4, p.style)
  /\ Len(F) >= 9

LEMMA DemoHeadIs ==
  ASSUME NEW p, NEW X, Widths(X), NEW h,
         h = <<Field(4, "GWPD"), Field(1, 1), Field(1, p.kind), Field(1, p.team), Field(1, p.lod)>>,
         \A f \in Range(h) : f \in X
  PROVE  /\ h \in Seq(X) /\ Len(h) = 5 /\ Bytes(h) = 8
         /\ h[1] = Field(4, "GWPD") /\ h[2] = Field(1, 1) /\ h[3] = Field(1, p.kind)
         /\ h[4] = Field(1, p.team) /\ h[5] = Field(1, p.lod)
<1>1. PICK a, b, c, d, e : /\ a = Field(4, "GWPD") /\ b = Field(1, 1) /\ c = Field(1, p.kind)
                           /\ d = Field(1, p.team) /\ e = Field(1, p.lod)
  OBVIOUS
<1>2. h = <<a, b, c, d, e>>
  BY <1>1
<1>3. DOMAIN h = 1..5 /\ h[1] = a /\ h[2] = b /\ h[3] = c /\ h[4] = d /\ h[5] = e
  BY <1>2
<1>4. a \in X /\ b \in X /\ c \in X /\ d \in X /\ e \in X
  BY <1>3 DEF Range
<1>5. h \in Seq(X) /\ Len(h) = 5
  BY <1>2, <1>4
<1>6. a.width = 4 /\ b.width = 1 /\ c.width = 1 /\ d.width = 1 /\ e.width = 1
  BY <1>1 DEF Field
<1> DEFINE q == [i \in 0..5 |-> IF i = 0 THEN 0 ELSE 3 + i]
<1>7. q[0] = 0 /\ (\A i \in 0..5 : q[i] \in Nat) /\ q[5] = 8
      /\ q[1] = 4 /\ q[2] = 5 /\ q[3] = 6 /\ q[4] = 7
  OBVIOUS
<1> HIDE DEF q
<1>8. ASSUME NEW i \in 1..5 PROVE q[i] = q[i - 1] + h[i].width
  <2>1. i = 1 \/ i = 2 \/ i = 3 \/ i = 4 \/ i = 5
    OBVIOUS
  <2>2. QED BY <1>3, <1>6, <1>7, <2>1
<1>9. SumsUp(q, h, 5)
  BY <1>7, <1>8 DEF SumsUp
<1>10. h \in [1..5 -> X] /\ 5 \in Nat
  BY <1>3, <1>5
<1>11. Bytes(h) = q[5]
  BY ONLY Widths(X), <1>9, <1>10, BytesAre
<1>12. QED BY <1>1, <1>3, <1>5, <1>7, <1>11

LEMMA DemoFieldsAre ==
  ASSUME NEW p, NEW F, F = EncodeDemoPayload(p)
  PROVE  DemoFields(F, p) /\ (\E S, V : Gives(F, S, V)) /\ Bytes(F) >= 24 /\ Bytes(F) \in Nat
<1>1. PICK h, t, y, l, z :
        /\ h = <<Field(4, "GWPD"), Field(1, 1), Field(1, p.kind), Field(1, p.team), Field(1, p.lod)>>
        /\ t = PositionFields(p.position) /\ y = <<Field(4, p.yaw)>>
        /\ l = (IF p.lod \in {0, 1} THEN <<Field(4, p.radius)>> ELSE <<>>)
        /\ z = (IF p.lod = 0 THEN <<Field(4, p.phase), Field(4, p.style)>> ELSE <<>>)
  OBVIOUS
<1>2. PICK X : X = {Field(4, "GWPD"), Field(1, 1), Field(1, p.kind), Field(1, p.team), Field(1, p.lod)}
                   \cup {Field(4, p.position[i]) : i \in 1..3}
                   \cup {Field(4, p.yaw), Field(4, p.radius), Field(4, p.phase), Field(4, p.style)}
  OBVIOUS
<1>3. Widths(X)
  BY <1>2 DEF Widths, Field
<1>4. /\ h \in Seq(X) /\ Len(h) = 5 /\ Bytes(h) = 8
      /\ h[1] = Field(4, "GWPD") /\ h[2] = Field(1, 1) /\ h[3] = Field(1, p.kind)
      /\ h[4] = Field(1, p.team) /\ h[5] = Field(1, p.lod)
  <2>1. \A f \in Range(h) : f \in X
    <3>1. PICK a, b, c, d, e : /\ a = Field(4, "GWPD") /\ b = Field(1, 1) /\ c = Field(1, p.kind)
                               /\ d = Field(1, p.team) /\ e = Field(1, p.lod)
      OBVIOUS
    <3>2. h = <<a, b, c, d, e>>
      BY <1>1, <3>1
    <3>3. DOMAIN h = 1..5 /\ \A i \in 1..5 : h[i] \in {a, b, c, d, e}
      BY <3>2
    <3>4. a \in X /\ b \in X /\ c \in X /\ d \in X /\ e \in X
      BY <1>2, <3>1
    <3>5. QED BY <3>3, <3>4 DEF Range
  <2>2. h = <<Field(4, "GWPD"), Field(1, 1), Field(1, p.kind), Field(1, p.team), Field(1, p.lod)>>
    BY <1>1
  <2>3. QED BY ONLY <1>3, <2>1, <2>2, DemoHeadIs
<1>5. /\ t \in Seq(X) /\ Len(t) = 3 /\ Bytes(t) = 12
      /\ \A i \in 1..3 : t[i] = Field(4, p.position[i])
  <2>1. PICK position : position = p.position
    OBVIOUS
  <2>2. t = PositionFields(position) /\ \A i \in 1..3 : Field(4, position[i]) \in X
    BY <1>1, <1>2, <2>1
  <2>3. t \in Seq(X) /\ Len(t) = 3 /\ Bytes(t) = 12 /\ \A i \in 1..3 : t[i] = Field(4, position[i])
    BY ONLY <1>3, <2>2, PositionIs
  <2>4. QED BY <2>1, <2>3
<1>6. PICK yaw, radius, phase, style :
        /\ yaw = Field(4, p.yaw) /\ radius = Field(4, p.radius)
        /\ phase = Field(4, p.phase) /\ style = Field(4, p.style)
  OBVIOUS
<1>7. yaw \in X /\ radius \in X /\ phase \in X /\ style \in X
  BY <1>2, <1>6
<1>8. y \in Seq(X) /\ Len(y) = 1 /\ y[1] = yaw
  <2>1. y = <<yaw>>
    BY <1>1, <1>6
  <2>2. QED BY <1>7, <2>1
<1>9. /\ l \in Seq(X) /\ Len(l) \in Nat
      /\ p.lod \in {0, 1} => Len(l) = 1 /\ l[1] = radius
      /\ p.lod \notin {0, 1} => Len(l) = 0
  <2>1. CASE p.lod \in {0, 1}
    <3>1. l = <<radius>>
      BY <1>1, <1>6, <2>1
    <3>2. QED BY <1>7, <2>1, <3>1
  <2>2. CASE p.lod \notin {0, 1}
    <3>1. l = <<>>
      BY <1>1, <2>2
    <3>2. QED BY <2>2, <3>1
  <2>3. QED BY <2>1, <2>2
<1>10. /\ z \in Seq(X) /\ Len(z) \in Nat
       /\ p.lod = 0 => Len(z) = 2 /\ z[1] = phase /\ z[2] = style
  <2>1. CASE p.lod = 0
    <3>1. z = <<phase, style>>
      BY <1>1, <1>6, <2>1
    <3>2. QED BY <1>7, <2>1, <3>1
  <2>2. CASE p.lod # 0
    <3>1. z = <<>>
      BY <1>1, <2>2
    <3>2. QED BY <2>2, <3>1
  <2>3. QED BY <2>1, <2>2
<1>11. PICK u, v, w : u = h \o t /\ v = u \o y /\ w = v \o l
  OBVIOUS
<1>12. F = w \o z
  BY <1>1, <1>11 DEF EncodeDemoPayload
<1>13. u \in Seq(X) /\ Joins(u, h, t)
  BY <1>3, <1>4, <1>5, <1>11, JoinsAre
<1>14. v \in Seq(X) /\ Joins(v, u, y)
  BY <1>3, <1>8, <1>11, <1>13, JoinsAre
<1>15. w \in Seq(X) /\ Joins(w, v, l)
  BY <1>3, <1>9, <1>11, <1>14, JoinsAre
<1>16. F \in Seq(X) /\ Joins(F, w, z)
  BY <1>3, <1>10, <1>12, <1>15, JoinsAre
<1>17. /\ Len(u) = 8 /\ Bytes(u) = 20 /\ (\A i \in 1..5 : u[i] = h[i])
       /\ \A i \in 1..3 : u[5 + i] = t[i]
  BY <1>4, <1>5, <1>13 DEF Joins
<1>18. Bytes(y) = 4
  <2>1. Bytes(y) = y[1].width
    BY <1>3, <1>8, BytesOfFew
  <2>2. QED BY <1>6, <1>8, <2>1 DEF Field
<1>19. Len(v) = 9 /\ Bytes(v) = 24 /\ (\A i \in 1..8 : v[i] = u[i]) /\ v[9] = yaw
  <2>1. v[8 + 1] = yaw
    BY <1>8, <1>14, <1>17 DEF Joins
  <2>2. QED BY <1>8, <1>14, <1>17, <1>18, <2>1 DEF Joins
<1>20. /\ Len(w) = 9 + Len(l) /\ (\A i \in 1..9 : w[i] = v[i])
       /\ \A i \in 1..Len(l) : w[9 + i] = l[i]
  BY <1>15, <1>19 DEF Joins
<1>21. PICK n \in Nat, m \in Nat, k \in Nat : n = Len(l) /\ m = Len(z) /\ k = 9 + n
  BY <1>9, <1>10
<1>22. /\ Len(F) = k + m /\ (\A i \in 1..k : F[i] = w[i])
       /\ \A i \in 1..m : F[k + i] = z[i]
  BY <1>16, <1>20, <1>21 DEF Joins
<1>23. \A i \in 1..9 : F[i] = v[i]
  <2>1. \A i \in 1..9 : i \in 1..k
    BY ONLY <1>21
  <2>2. QED BY <1>20, <1>22, <2>1
<1>24. \A i \in 1..8 : F[i] = u[i]
  <2>1. \A i \in 1..8 : i \in 1..9
    OBVIOUS
  <2>2. QED BY <1>19, <1>23, <2>1
<1>25. \A i \in 1..5 : F[i] = h[i]
  <2>1. \A i \in 1..5 : i \in 1..8
    OBVIOUS
  <2>2. QED BY <1>17, <1>24, <2>1
<1>26. F[1] = h[1] /\ F[2] = h[2] /\ F[3] = h[3] /\ F[4] = h[4] /\ F[5] = h[5]
  BY <1>25
<1>27. \A i \in 1..3 : F[5 + i] = Field(4, p.position[i])
  <2>1. \A i \in 1..3 : 5 + i \in 1..8
    OBVIOUS
  <2>2. QED BY <1>5, <1>17, <1>24, <2>1
<1>28. F[9] = yaw /\ Len(F) >= 9
  <2>1. k + m >= 9
    BY ONLY <1>21
  <2>2. QED BY <1>19, <1>22, <1>23, <2>1
<1>29. ASSUME p.lod \in {0, 1} PROVE Len(F) >= 10 /\ F[10] = radius
  <2>1. n = 1 /\ l[1] = radius
    BY <1>9, <1>21, <1>29
  <2>2. k = 10 /\ k + m >= 10 /\ 10 \in 1..k /\ 9 + 1 = 10
    BY ONLY <1>21, <2>1
  <2>3. w[9 + 1] = l[1]
    BY <1>20, <1>21, <2>1
  <2>4. QED BY <1>22, <2>1, <2>2, <2>3
<1>30. ASSUME p.lod = 0 PROVE Len(F) = 12 /\ F[11] = phase /\ F[12] = style
  <2>1. n = 1 /\ m = 2 /\ z[1] = phase /\ z[2] = style
    BY <1>9, <1>10, <1>21, <1>30
  <2>2. k = 10 /\ k + m = 12 /\ k + 1 = 11 /\ k + 2 = 12 /\ 1 \in 1..m /\ 2 \in 1..m
    BY ONLY <1>21, <2>1
  <2>3. QED BY <1>22, <2>1, <2>2
<1>31. Bytes(F) >= 24 /\ Bytes(F) \in Nat
  <2>1. Bytes(F) = Bytes(w) + Bytes(z) /\ Bytes(z) \in Nat
    BY <1>16 DEF Joins
  <2>2. Bytes(w) = Bytes(v) + Bytes(l) /\ Bytes(l) \in Nat
    BY <1>15 DEF Joins
  <2>3. QED BY <1>19, <2>1, <2>2
<1>32. \E S, V : Gives(F, S, V)
  BY <1>16, GivesValues
<1>33. DemoFields(F, p)
  BY <1>4, <1>6, <1>26, <1>27, <1>28, <1>29, <1>30 DEF DemoFields
<1>34. QED BY <1>31, <1>32, <1>33

-------------------------------------------------------------------------------
(* Godot: reading an entity's payload *)

LEMMA NewReaderAt ==
  ASSUME NEW F, NEW S, NEW V, Gives(F, S, V)
  PROVE  At(NewReader(F), F, 0, <<>>, <<>>, V)
<1>1. PICK empty : empty = <<>>
  OBVIOUS
<1>2. F \in Seq(S) /\ Len(F) \in Nat
  BY DEF Gives
<1>3. NewReader(F) = ReaderAt(F, 0, empty, empty)
  BY <1>1, <1>2, NewReaderIs
<1>4. 0 \in 0..Len(F) /\ empty \in Seq(V)
  BY <1>1, <1>2
<1>5. QED BY <1>1, <1>3, <1>4, CursorIs DEF At

\* the nine fields that every tier has
LEMMA NineRead ==
  ASSUME NEW F, NEW p, DemoFields(F, p), NEW S, NEW V, Gives(F, S, V),
         NEW r, r = ReadThem(NewReader(F), <<4, 1, 1, 1, 1, 4, 4, 4, 4>>)
  PROVE  \E read : /\ At(r, F, 9, read, <<>>, V) /\ read \in Seq(V) /\ Len(read) = 9
                   /\ \A i \in 1..9 : read[i] = F[i].value
<1>1. PICK ws : ws = <<4, 1, 1, 1, 1, 4, 4, 4, 4>>
  OBVIOUS
<1>2. /\ ws[1] = 4 /\ ws[2] = 1 /\ ws[3] = 1 /\ ws[4] = 1 /\ ws[5] = 1 /\ ws[6] = 4
      /\ ws[7] = 4 /\ ws[8] = 4 /\ ws[9] = 4 /\ DOMAIN ws = 1..9 /\ ws = [i \in 1..9 |-> ws[i]]
  BY <1>1
<1>3. ws \in [1..9 -> Nat]
  <2>1. ASSUME NEW i \in 1..9 PROVE ws[i] \in Nat
    <3>1. i = 1 \/ i = 2 \/ i = 3 \/ i = 4 \/ i = 5 \/ i = 6 \/ i = 7 \/ i = 8 \/ i = 9
      OBVIOUS
    <3>2. QED BY <1>2, <3>1
  <2>2. QED BY <1>2, <2>1
<1>4. PICK start : start = NewReader(F) /\ At(start, F, 0, <<>>, <<>>, V)
  BY NewReaderAt
<1>5. start \in Readers(S, V) /\ (\A field \in S : field.value \in V) /\ <<>> \in V /\ 9 \in Nat
  BY <1>4, AtTyped DEF Gives
<1>6. PICK p9 : WidthsRun(p9, start, ws, 9) /\ r = p9[9]
  <2>1. RunsTo(start, ws, 9, ReadThem(start, ws))
    BY ONLY <1>3, <1>5, ReadsAreRun
  <2>2. QED BY <1>1, <1>4, <2>1 DEF RunsTo
<1>7. /\ F[1].width = 4 /\ F[2].width = 1 /\ F[3].width = 1 /\ F[4].width = 1 /\ F[5].width = 1
      /\ F[6].width = 4 /\ F[7].width = 4 /\ F[8].width = 4 /\ F[9].width = 4
  <2>1. 5 + 1 = 6 /\ 5 + 2 = 7 /\ 5 + 3 = 8 /\ 1 \in 1..3 /\ 2 \in 1..3 /\ 3 \in 1..3
    OBVIOUS
  <2>2. F[5 + 1].width = 4 /\ F[5 + 2].width = 4 /\ F[5 + 3].width = 4
    BY <2>1 DEF DemoFields, Field
  <2>3. QED BY <2>1, <2>2 DEF DemoFields, Field
<1>8. ASSUME NEW i \in 1..9 PROVE ws[i] # 0 /\ F[0 + i].width = ws[i]
  <2>1. i = 1 \/ i = 2 \/ i = 3 \/ i = 4 \/ i = 5 \/ i = 6 \/ i = 7 \/ i = 8 \/ i = 9
    OBVIOUS
  <2>2. 0 + i = i
    OBVIOUS
  <2>3. QED BY <1>2, <1>7, <2>1, <2>2
<1>9. PICK n, read : n = <<>> /\ At(r, F, 0 + 9, read, <<>>, V) /\ Values(read, n, F, 0, 9)
  <2>1. 0 + 9 <= Len(F)
    BY DEF DemoFields
  <2>2. \E more : At(p9[9], F, 0 + 9, more, <<>>, V) /\ Values(more, <<>>, F, 0, 9)
    BY ONLY Gives(F, S, V), <1>4, <1>5, <1>6, <1>8, <2>1, FieldsRead
  <2>3. QED BY <1>6, <2>2
<1>10. Len(n) = 0 /\ 0 + 9 = 9
  BY <1>9
<1>11. At(r, F, 9, read, <<>>, V) /\ read \in Seq(V)
  BY <1>9, <1>10 DEF At
<1>12. Len(read) = 9 /\ \A i \in 1..9 : read[0 + i] = F[0 + i].value
  BY <1>9, <1>10 DEF Values
<1>13. ASSUME NEW i \in 1..9 PROVE read[i] = F[i].value
  <2>1. 0 + i = i
    OBVIOUS
  <2>2. QED BY <1>12, <2>1
<1>14. QED BY <1>11, <1>12, <1>13

LEMMA MiddleOf ==
  ASSUME NEW V, NEW s \in Seq(V), Len(s) = 9
  PROVE  SubSeq(s, 6, 8) = [i \in 1..3 |-> s[5 + i]]
OBVIOUS

LEMMA DemoIsSeen ==
  ASSUME NEW p, IsPosition(p.position),
         p = [kind |-> p.kind, team |-> p.team, lod |-> p.lod, position |-> p.position,
              yaw |-> p.yaw, radius |-> p.radius, phase |-> p.phase, style |-> p.style]
  PROVE  DecodeDemoPayload(EncodeDemoPayload(p)) = Shown(p)
<1>1. PICK F, r : /\ F = EncodeDemoPayload(p)
                  /\ r = ReadThem(NewReader(F), <<4, 1, 1, 1, 1, 4, 4, 4, 4>>)
  OBVIOUS
<1>2. DemoFields(F, p) /\ ~ (Bytes(F) < 24)
  BY <1>1, DemoFieldsAre
<1>3. PICK S, V : Gives(F, S, V)
  BY <1>1, DemoFieldsAre
<1>4. PICK read : /\ At(r, F, 9, read, <<>>, V) /\ read \in Seq(V) /\ Len(read) = 9
                  /\ \A i \in 1..9 : read[i] = F[i].value
  <2>1. r = ReadThem(NewReader(F), <<4, 1, 1, 1, 1, 4, 4, 4, 4>>)
    BY <1>1
  <2>2. QED BY ONLY <1>2, <1>3, <2>1, NineRead
<1>5. r.read = read
  BY <1>4 DEF At, ReaderAt, Reader
<1>6. /\ read[1] = "GWPD" /\ read[2] = 1 /\ read[3] = p.kind /\ read[4] = p.team
      /\ read[5] = p.lod /\ read[9] = p.yaw
  <2>1. /\ read[1] = F[1].value /\ read[2] = F[2].value /\ read[3] = F[3].value
        /\ read[4] = F[4].value /\ read[5] = F[5].value /\ read[9] = F[9].value
    BY <1>4
  <2>2. QED BY <1>2, <2>1 DEF DemoFields, Field
<1>7. SubSeq(read, 6, 8) = p.position
  <2>1. PICK position : position = p.position
    OBVIOUS
  <2>2. SubSeq(read, 6, 8) = [i \in 1..3 |-> read[5 + i]]
    BY <1>4, MiddleOf
  <2>3. ASSUME NEW i \in 1..3 PROVE read[5 + i] = position[i]
    <3>1. 5 + i \in 1..9
      OBVIOUS
    <3>2. F[5 + i].value = position[i]
      BY <1>2, <2>1 DEF DemoFields, Field
    <3>3. QED BY <1>4, <3>1, <3>2
  <2>4. position = [i \in 1..3 |-> position[i]]
    BY <2>1 DEF IsPosition
  <2>5. QED BY <2>1, <2>2, <2>3, <2>4
<1>8. PICK lod : lod = p.lod
  OBVIOUS
<1> DEFINE radius == IF lod \in {0, 1} THEN ReadExact(r, 4) ELSE r
           all == IF lod = 0 THEN ReadExact(ReadExact(radius, 4), 4) ELSE radius
           seen == [kind |-> r.read[3], team |-> r.read[4], lod |-> lod,
                    position |-> SubSeq(r.read, 6, 8), yaw |-> r.read[9],
                    radius |-> IF lod \in {0, 1} THEN all.read[10] ELSE DefaultRadius,
                    phase |-> IF lod = 0 THEN all.read[11] ELSE 0,
                    style |-> IF lod = 0 THEN all.read[12] ELSE 0]
<1>9. DecodeDemoPayload(F) = seen
  BY ZenonT(60), <1>1, <1>2, <1>5, <1>6, <1>8 DEF DecodeDemoPayload, ReadThem
<1>10. \E more : lod \in {0, 1} => /\ At(radius, F, 10, more, <<>>, V) /\ more \in Seq(V)
                                   /\ Len(more) = 10 /\ more[10] = p.radius
  <2>1. CASE lod \in {0, 1}
    <3>1. radius = ReadExact(r, 4)
      BY <2>1
    <3>2. 10 <= Len(F) /\ F[10].width = 4 /\ F[10].value = p.radius
      BY <1>2, <1>8, <2>1 DEF DemoFields, Field
    <3>3. 10 = 9 + 1 /\ 4 # 0
      OBVIOUS
    <3>4. PICK v, more : v = p.radius /\ more = Append(read, v)
      OBVIOUS
    <3> HIDE DEF radius
    <3>5. At(radius, F, 10, more, <<>>, V) /\ v \in V
      <4>1. PICK q : q = ReadExact(r, 4)
        OBVIOUS
      <4>2. PICK k, m : k = 9 /\ m = 10
        OBVIOUS
      <4>3. /\ Gives(F, S, V) /\ At(r, F, k, read, <<>>, V) /\ m = k + 1 /\ m <= Len(F)
            /\ F[m].width = 4 /\ F[m].value = v /\ 4 # 0
        BY <1>3, <1>4, <3>2, <3>4, <4>2
      <4>4. At(q, F, m, Append(read, v), <<>>, V) /\ v \in V
        BY ONLY <4>1, <4>3, NextRead
      <4>5. QED BY <3>1, <3>4, <4>1, <4>2, <4>4
    <3>6. 10 = Len(read) + 1 /\ read \in Seq(V) /\ v \in V /\ more = Append(read, v)
      BY <1>4, <3>4, <3>5
    <3>7. more \in Seq(V) /\ Len(more) = 10 /\ more[10] = v
      BY ONLY <3>6, AppendIs
    <3>8. QED BY <3>4, <3>5, <3>7
  <2>2. CASE lod \notin {0, 1}
    BY <2>2
  <2>3. QED BY <2>1, <2>2
<1>11. PICK more : lod \in {0, 1} => /\ At(radius, F, 10, more, <<>>, V) /\ more \in Seq(V)
                                     /\ Len(more) = 10 /\ more[10] = p.radius
  BY <1>10
<1> HIDE DEF radius
<1>12. lod = 0 => all.read[10] = p.radius /\ all.read[11] = p.phase /\ all.read[12] = p.style
  <2>1. SUFFICES ASSUME lod = 0
        PROVE  all.read[10] = p.radius /\ all.read[11] = p.phase /\ all.read[12] = p.style
    OBVIOUS
  <2>2. PICK q, m1, m2, u, v : /\ q = ReadExact(radius, 4) /\ u = p.phase /\ v = p.style
                               /\ m1 = Append(more, u) /\ m2 = Append(m1, v)
    OBVIOUS
  <2>3. all = ReadExact(q, 4)
    BY <2>1, <2>2
  <2>4. Len(F) = 12 /\ F[11] = Field(4, u) /\ F[12] = Field(4, v)
    BY <1>2, <1>8, <2>1, <2>2 DEF DemoFields
  <2>5. 11 <= Len(F) /\ 12 <= Len(F) /\ 11 = 10 + 1 /\ 12 = 11 + 1 /\ 4 # 0
    BY <2>4
  <2>6. F[11].width = 4 /\ F[11].value = u /\ F[12].width = 4 /\ F[12].value = v
    BY <2>4 DEF Field
  <2>7. /\ At(radius, F, 10, more, <<>>, V) /\ more \in Seq(V)
        /\ Len(more) = 10 /\ more[10] = p.radius
    BY <1>11, <2>1
  <2> HIDE DEF all
  <2>8. At(q, F, 11, m1, <<>>, V) /\ u \in V
    <3>1. q = ReadExact(radius, 4) /\ m1 = Append(more, u)
      BY <2>2
    <3>2. 11 <= Len(F) /\ F[11].width = 4 /\ F[11].value = u /\ 11 = 10 + 1 /\ 4 # 0
      BY <2>5, <2>6
    <3>3. At(radius, F, 10, more, <<>>, V)
      BY <2>7
    <3>4. QED BY <1>3, <3>1, <3>2, <3>3, NextRead
  <2>9. At(all, F, 12, m2, <<>>, V) /\ v \in V
    BY <1>3, <2>2, <2>3, <2>5, <2>6, <2>8, NextRead
  <2>10. m2[12] = v /\ m2[11] = u /\ m2[10] = p.radius
    <3>1. 11 = Len(more) + 1 /\ more \in Seq(V) /\ u \in V /\ m1 = Append(more, u)
      BY <2>2, <2>7, <2>8
    <3>2. m1 \in Seq(V) /\ Len(m1) = 11 /\ m1[11] = u /\ \A i \in 1..Len(more) : m1[i] = more[i]
      BY ONLY <3>1, AppendIs
    <3>3. 12 = Len(m1) + 1 /\ m1 \in Seq(V) /\ v \in V /\ m2 = Append(m1, v)
      BY <2>2, <2>9, <3>2
    <3>4. m2[12] = v /\ \A i \in 1..Len(m1) : m2[i] = m1[i]
      BY ONLY <3>3, AppendIs
    <3>5. 10 \in 1..Len(more) /\ 10 \in 1..Len(m1) /\ 11 \in 1..Len(m1)
      BY <2>7, <3>2
    <3>6. QED BY <2>7, <3>2, <3>4, <3>5
  <2>11. all.read = m2
    BY <2>9 DEF At, ReaderAt, Reader
  <2>12. QED BY <2>2, <2>10, <2>11
<1>13. lod = 1 => all.read[10] = p.radius
  <2>1. SUFFICES ASSUME lod = 1 PROVE all.read[10] = p.radius
    OBVIOUS
  <2>2. all = radius
    BY <2>1
  <2>3. radius.read = more
    BY <1>11, <2>1 DEF At, ReaderAt, Reader
  <2>4. QED BY <1>11, <2>1, <2>2, <2>3
<1> HIDE DEF all
<1>14. PICK k, t, l, o, y, d, h, s :
         /\ k = p.kind /\ t = p.team /\ l = p.lod /\ o = p.position /\ y = p.yaw
         /\ d = p.radius /\ h = p.phase /\ s = p.style
  OBVIOUS
<1>15. p = [kind |-> k, team |-> t, lod |-> l, position |-> o,
            yaw |-> y, radius |-> d, phase |-> h, style |-> s]
  BY <1>14
<1>16. Shown(p) = [kind |-> k, team |-> t, lod |-> l, position |-> o, yaw |-> y,
                   radius |-> IF l \in {0, 1} THEN d ELSE DefaultRadius,
                   phase |-> IF l = 0 THEN h ELSE 0, style |-> IF l = 0 THEN s ELSE 0]
  <2>1. PICK q : q = p
    OBVIOUS
  <2>2. Shown(q) = [q EXCEPT !.radius = IF l \in {0, 1} THEN d ELSE DefaultRadius,
                             !.phase = IF l = 0 THEN h ELSE 0,
                             !.style = IF l = 0 THEN s ELSE 0]
    BY <1>14, <2>1 DEF Shown
  <2>3. q = [kind |-> k, team |-> t, lod |-> l, position |-> o,
             yaw |-> y, radius |-> d, phase |-> h, style |-> s]
    BY <1>15, <2>1
  <2>4. Shown(q) = [kind |-> k, team |-> t, lod |-> l, position |-> o, yaw |-> y,
                    radius |-> IF l \in {0, 1} THEN d ELSE DefaultRadius,
                    phase |-> IF l = 0 THEN h ELSE 0, style |-> IF l = 0 THEN s ELSE 0]
    BY ONLY <2>2, <2>3
  <2>5. QED BY <2>1, <2>4
<1>17. /\ r.read[3] = k /\ r.read[4] = t /\ lod = l /\ SubSeq(r.read, 6, 8) = o /\ r.read[9] = y
  BY <1>5, <1>6, <1>7, <1>8, <1>14
<1>18. (IF lod \in {0, 1} THEN all.read[10] ELSE DefaultRadius) = IF l \in {0, 1} THEN d ELSE DefaultRadius
  BY <1>8, <1>12, <1>13, <1>14
<1>19. /\ (IF lod = 0 THEN all.read[11] ELSE 0) = IF l = 0 THEN h ELSE 0
       /\ (IF lod = 0 THEN all.read[12] ELSE 0) = IF l = 0 THEN s ELSE 0
  BY <1>8, <1>12, <1>14
<1>20. QED BY <1>1, <1>9, <1>16, <1>17, <1>18, <1>19

-------------------------------------------------------------------------------
(* CodecTransport: the sides of the protocol agree *)

\* what the last call sent was written from one of the runtime's messages
SentIsWritten ==
  lastCall.call = "send" => lastCall.message \in ServerMessages /\ lastCall.frame = Encode(lastCall.message)

LEMMA NothingSent ==
  ASSUME lastCall' = NoCall \/ lastCall'.call = "drain_received"
  PROVE  SentIsWritten'
<1>1. lastCall'.call # "send"
  BY DEF NoCall
<1>2. QED BY <1>1 DEF SentIsWritten

LEMMA SentStaysWritten == SentIsWritten /\ [CodecNext]_codecVars => SentIsWritten'
<1> SUFFICES ASSUME SentIsWritten, [CodecNext]_codecVars PROVE SentIsWritten'
  OBVIOUS
<1>1. ASSUME NEW c \in Peer, NEW m \in ServerMessages, Send(c, m) PROVE SentIsWritten'
  <2>1. CASE EncodeError(m) = NoError
    <3>1. lastCall' = [call |-> "send", client |-> c, message |-> m, frame |-> Encode(m)]
      BY <1>1, <2>1 DEF Send
    <3>2. lastCall'.message = m /\ lastCall'.frame = Encode(m)
      BY <3>1
    <3>3. QED BY <3>2 DEF SentIsWritten
  <2>2. CASE EncodeError(m) # NoError
    <3>1. lastCall' = NoCall
      BY <1>1, <2>2 DEF Send
    <3>2. QED BY <3>1, NothingSent
  <2>3. QED BY <2>1, <2>2
<1>2. ASSUME NEW c \in Peer, NEW written, PushReceivedBytes(c, written) PROVE SentIsWritten'
  <2>1. lastCall' = NoCall
    BY <1>2 DEF PushReceivedBytes
  <2>2. QED BY <2>1, NothingSent
<1>3. CASE DrainReceived
  <2>1. PICK messages : lastCall' = [call |-> "drain_received", messages |-> messages]
    BY <1>3 DEF DrainReceived
  <2>2. lastCall'.call = "drain_received"
    BY <2>1
  <2>3. QED BY <2>2, NothingSent
<1>4. CASE TakeCodecErrors
  <2>1. lastCall' = NoCall
    BY <1>4 DEF TakeCodecErrors
  <2>2. QED BY <2>1, NothingSent
<1>5. CASE UNCHANGED codecVars
  BY <1>5 DEF codecVars, SentIsWritten
<1>6. QED BY <1>1, <1>2, <1>3, <1>4, <1>5 DEF CodecNext, PushDamaged, PushReceivedMessage

LEMMA WrittenAgrees == SentIsWritten => SidesAgree
<1> SUFFICES ASSUME SentIsWritten PROVE SidesAgree
  OBVIOUS
<1>1. ASSUME NEW p \in DemoPayloads PROVE DecodeDemoPayload(EncodeDemoPayload(p)) = Shown(p)
  <2>1. /\ IsPosition(p.position)
        /\ p = [kind |-> p.kind, team |-> p.team, lod |-> p.lod, position |-> p.position,
                yaw |-> p.yaw, radius |-> p.radius, phase |-> p.phase, style |-> p.style]
    BY MessagesAssumption
  <2>2. QED BY <2>1, DemoIsSeen
<1>2. ASSUME NEW i \in GodotInputs
      PROVE  ParseClientInput(InputPayload(i.position, i.yaw, i.fire)) =
               [position |-> i.position, yaw |-> i.yaw, fire |-> i.fire]
  <2>1. IsPosition(i.position) /\ i.fire \in BOOLEAN
    BY MessagesAssumption
  <2>2. PICK position, yaw, fire : position = i.position /\ yaw = i.yaw /\ fire = i.fire
    OBVIOUS
  <2>3. IsPosition(position) /\ fire \in BOOLEAN
    BY <2>1, <2>2
  <2>4. ParseClientInput(InputPayload(position, yaw, fire)) =
          [position |-> position, yaw |-> yaw, fire |-> fire]
    BY <2>3, InputsAreSeen
  <2>5. QED BY <2>2, <2>4
<1>3. ASSUME lastCall.call = "send" PROVE Agreed(lastCall.frame, lastCall.message)
  <2>1. PICK m, F : m = lastCall.message /\ F = lastCall.frame
    OBVIOUS
  <2>2. IsServerMessage(m) /\ F = Encode(m)
    BY <1>3, <2>1, MessagesAssumption DEF SentIsWritten
  <2>3. Agreed(F, m)
    BY ONLY <2>2, ServerMessagesAgree
  <2>4. QED BY <2>1, <2>3
<1>4. ASSUME NEW i \in GodotInputs, NEW n \in DOMAIN lastCall.messages,
             lastCall.messages[n].message = Input(InputPayload(i.position, i.yaw, i.fire))
      PROVE  ParseClientInput(lastCall.messages[n].message.payload) =
               [position |-> i.position, yaw |-> i.yaw, fire |-> i.fire]
  <2>1. lastCall.messages[n].message.payload = InputPayload(i.position, i.yaw, i.fire)
    BY <1>4 DEF Input
  <2>2. QED BY <1>2, <2>1
<1>5. QED BY <1>1, <1>3, <1>4 DEF SidesAgree, Agreed, RustAgrees

(* The two implementations of the protocol mean the same by every frame, as     *)
(* SidesAgree says: whatever a message holds, however many operations and       *)
(* payloads of whatever sizes, and wherever the Rust client's limits are.       *)
THEOREM SidesAlwaysAgree == CodecSpec => []SidesAgree
<1>1. CodecInit => SentIsWritten
  BY DEF CodecInit, NoCall, SentIsWritten
<1>2. QED BY <1>1, SentStaysWritten, WrittenAgrees, PTL DEF CodecSpec

-------------------------------------------------------------------------------
(* The composition *)

(* What is explored together is, of each transport, a behaviour of its own: so *)
(* all that is proved of the transports holds in the composition.              *)
THEOREM TransportsKeepApart == TransportsSpec => Spec /\ FragSpec /\ CodecSpec
<1>1. TransportsInit => Init /\ FragInit /\ CodecInit
  BY DEF TransportsInit
<1> DEFINE Step == [TransportsNext]_<<part, vars, fragVars, codecVars>>
<1>2. Step => [Next]_vars
  BY DEF TransportsNext
<1>3. Step => [FragNext]_fragVars
  BY DEF TransportsNext
<1>4. Step => [CodecNext]_codecVars
  BY DEF TransportsNext
<1>5. QED BY <1>1, <1>2, <1>3, <1>4, PTL DEF TransportsSpec, Spec, FragSpec, CodecSpec

(* All the transports keep their types. *)
THEOREM TransportsTypeCorrect == TransportsSpec => []TransportsTypeOK
<1>1. TypeOK /\ FragTypeOK /\ CodecTypeOK => TransportsTypeOK
  BY DEF TransportsTypeOK
<1>2. QED BY <1>1, TransportsKeepApart, UdpTypeCorrect, FragTypeCorrect, CodecTypeCorrect, PTL
===============================================================================
