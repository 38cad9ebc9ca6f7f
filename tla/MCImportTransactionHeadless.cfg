SPECIFICATION Spec
CONSTANTS
  a = a
  b = b
  c = c
  F = F
  G = G
  Uploads = {u1, u2}
  GuestIds = {1, 2, 3, 4}
  GroupIds = {1, 2, 3, 4}
  Names = {a, b}
  Labels = {a, b, F}
  Files <- RacingSheets
  Lists <- RacingLists
  MaxImports = 2
  MaxEdits = 1
  Null = Null
SYMMETRY Symmetric
PROPERTY ImportsLeaveAHead
CHECK_DEADLOCK FALSE
