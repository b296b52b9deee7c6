CONSTANTS
  Clients = {c1, c2}
  Messages = {m1}
  Senders = {bus, pump}
  Bus = bus
  Typing = Typing
  NoClient = NoClient
  QueueSize = 1
SPECIFICATION FairSpec
INVARIANTS
  TypeOK
  LostOnlyWithTheConnection
PROPERTIES
  DeliveryEnds
  SlowIsDropped
  MessageLeaves
