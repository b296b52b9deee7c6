CONSTANTS
  Users = {a, b, c, d}
  Requests = {r1, r2, r3}
  Actions = {"like"}
  DailySwipeLimit = 2
  MaxDay = 1
  NoUser = NoUser
  NoRequest = NoRequest
  TheActor = a
SPECIFICATION CrashSpec
INVARIANTS
  TypeOK
  DailyLimit
  ReservationsCovered
PROPERTIES
  OnlyFailuresLoseSwipes
SYMMETRY TargetSymmetry
CONSTRAINT OneActorNoBlocks
