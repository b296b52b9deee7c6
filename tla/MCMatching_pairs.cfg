CONSTANTS
  Users = {a, b}
  Requests = {r1, r2, r3}
  Actions = {"like", "superlike", "dislike"}
  DailySwipeLimit = 1
  MaxDay = 0
  NoUser = NoUser
  NoRequest = NoRequest
  TheActor = a
SPECIFICATION LossySpec
INVARIANTS
  MatchIffMutual
  BlockedNotMatched
PROPERTIES
  PromiseKept
SYMMETRY Symmetry
