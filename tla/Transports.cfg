SPECIFICATION TransportsSpec
CONSTANTS
  Client = {c1, c2, c3}
  Address = {a1, a2}
  MaxQueue = 1
  e1 = e1
  e2 = e2
  e3 = e3
  e4 = e4
  Handed <- MCHanded
  MaxDatagram = 64
  MaxFragments = 3
  MaxPending = 2
  MaxSequence = 3
  Peer = {p1, p2}
  Sequences = {6}
  MaxLength = 40
  MaxCount = 2
  MaxPayloadLen = 30
  MaxOps = 1
  ServerMessages <- MCServerMessages
  DemoPayloads <- MCDemoPayloads
  GodotInputs <- MCGodotInputs
  Payloads <- MCPayloads
  MaxHeld = 2
CHECK_DEADLOCK FALSE
INVARIANTS
  TransportsTypeOK
  MapsAreInverse
  AckedOnlyWhenApplied
  AllFragmentsLeave
  PendingIsTracked
  SidesAgree
PROPERTIES
  ImplementsAddressBook
  DrainIsExact
