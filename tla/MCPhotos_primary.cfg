CONSTANTS
  Photos = {p1, p2, p3}
  Requests = {r1, r2}
  MaxPhotos = 2
  NoPhoto = NoPhoto
SPECIFICATION Spec
INVARIANTS
  PrimaryKept
SYMMETRY Symmetry
