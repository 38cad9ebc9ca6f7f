SPECIFICATION Spec
CONSTANTS
  Handlers = {t1, t2}
  Guests = {a, b, c}
  Groups = {f, g, h, i}
  Ops = {"detach", "primary"}
  Imports <- Families
  MaxCompanionsPerGroup = 3
  Null = Null
  Absent = Absent
  Gone = Gone
SYMMETRY Symmetric
INVARIANTS
  AtMostOnePrimary
