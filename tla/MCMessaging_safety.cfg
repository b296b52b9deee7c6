CONSTANTS
  Users = {a, b}
  Nonces = {n}
  Attempts = {p1, p2, p3}
  NoText = NoText
  Watched = a
SPECIFICATION FailSpec
INVARIANTS
  TypeOK
  ShownIsStored
  SentOnce
  NoDoubles
  LiveViewComplete
SYMMETRY Symmetry
CONSTRAINT OneWindow
