CONSTANTS
  Tokens = {t1, t2, t3}
  Requests = {r1, r2}
  NoToken = NoToken
  NoRequest = NoRequest
SPECIFICATION Spec
INVARIANTS
  TypeOK
  OneLivePerFamily
  GivenIsTracked
  NoCircularWait
PROPERTIES
  SessionsKept
  OnlyRotationEscapes
SYMMETRY Symmetry
