SPECIFICATION Spec
CONSTANTS
  Handlers = {t1}
  Guests = {a, b, c}
  Groups = {f, g, h, i}
  Ops = {"add", "remove", "delete"}
  Imports <- Singles
  MaxCompanionsPerGroup = 3
  Null = Null
  Absent = Absent
  Gone = Gone
SYMMETRY Symmetric
INVARIANTS
  NoEmptyInvitation
