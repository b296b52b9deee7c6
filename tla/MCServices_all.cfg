CONSTANTS
  Members = {a, b}
  Reader = a
  Messages = {1, 2, 3}
  Skews <- MCSkews
  MaxLag = 1
  Page = 1
  RateLimit = 1
  RateWindow = 1
  MaxClock = 2
  Requests = {r1, r2}
  Addresses = {ip}
  Emails = {e1, e2}
  Passwords = {p, q, w}
  Weak = {w}
  MaxAttempts = 2
  BaseLockout = 5
  MaxLockout = 10
  MaxTries = 4
SPECIFICATION MCSpec
INVARIANTS
  TypeOK
  OneHistory
  MarkedIsRead
  LateMessagesWereAdmitted
  OverLimitOnlyAtTheEnd
  LockoutBoundsGuesses
  CreatedIsKept
\* the bound on the requests ends a behaviour of Gates
CHECK_DEADLOCK FALSE
