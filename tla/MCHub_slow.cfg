CONSTANTS
  Clients = {c1}
  Messages = {m1, m2}
  Senders = {bus, pump}
  Bus = bus
  Typing = Typing
  NoClient = NoClient
  QueueSize = 1
SPECIFICATION Spec
INVARIANTS
  SlowHurtsNobodyElse
