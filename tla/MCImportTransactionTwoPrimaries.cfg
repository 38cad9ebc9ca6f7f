SPECIFICATION Spec
CONSTANTS
  a = a
  b = b
  c = c
  F = F
  G = G
  Uploads = {u1, u2}
  GuestIds = {1, 2, 3, 4}
  GroupIds = {1, 2, 3, 4}
  Names = {a, b, c}
  Labels = {a, b, c, F}
  Files <- RacingSheets
  Lists <- LoneLists
  MaxImports = 2
  MaxEdits = 0
  Null = Null
SYMMETRY Symmetric
INVARIANT SinglePrimary
CHECK_DEADLOCK FALSE
