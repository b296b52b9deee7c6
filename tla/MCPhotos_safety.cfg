CONSTANTS
  Photos = {p1, p2, p3}
  Requests = {r1, r2}
  MaxPhotos = 2
  NoPhoto = NoPhoto
SPECIFICATION FailSpec
INVARIANTS
  TypeOK
  PhotoLimit
  OnePrimary
  LiveHasContent
  BlobsAccounted
SYMMETRY Symmetry
CHECK_DEADLOCK FALSE
