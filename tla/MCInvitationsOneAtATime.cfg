SPECIFICATION Spec
CONSTANTS
  Handlers = {t1}
  Guests = {a, b, c}
  Groups = {f, g, h, i}
  Ops = {"add", "remove", "create", "delete", "primary", "detach", "merge"}
  Imports <- AllImports
  MaxCompanionsPerGroup = 1
  Null = Null
  Absent = Absent
  Gone = Gone
SYMMETRY Symmetric
INVARIANTS
  NobodyLost
  AtMostOnePrimary
