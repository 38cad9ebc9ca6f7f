SPECIFICATION Spec
CONSTANTS
  a = a
  b = b
  c = c
  F = F
  G = G
  Uploads = {u1}
  GuestIds = {1, 2, 3, 4, 5, 6}
  GroupIds = {1, 2, 3, 4, 5}
  Names = {a, b, c}
  Labels = {a, b, c, F, G}
  Files <- ThreeLineSheets
  Lists <- SmallLists
  MaxImports = 1
  Null = Null
PROPERTIES
  SettlesAtOnce
  FileIsFollowed
  HeadsKept
CHECK_DEADLOCK FALSE
