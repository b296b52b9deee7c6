CONSTANTS
  Users = {a, b}
  Nonces = {n}
  Attempts = {p1}
  NoText = NoText
  Watched = a
SPECIFICATION FairSpec
PROPERTIES
  StoredIsShown
