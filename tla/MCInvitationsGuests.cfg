SPECIFICATION Spec
CONSTANTS
  Handlers = {t1, t2}
  Guests = {a, b, c}
  Groups = {f, g, h, i}
  Ops = {"add", "remove"}
  Imports <- Singles
  MaxCompanionsPerGroup = 1
  Null = Null
  Absent = Absent
  Gone = Gone
SYMMETRY Symmetric
INVARIANTS
  CompanionCeiling
PROPERTIES
  OnlyGatheredSentHome
