SPECIFICATION Spec
CONSTANTS
  Images = {i1}
  Tasks = {t1, t2}
  Visitors = {v1, v2}
  Contents <- Galleries
  Missing = Missing
  Failed = Failed
  CacheTTL = 2
  MissTTL = 1
CONSTRAINT HalvesApart
SYMMETRY Symmetric
INVARIANTS
  TypeOK
  StaleOnlyForATime
  LibraryMatchesBucket
  SavedGalleryIsWhole
