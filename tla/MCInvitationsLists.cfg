SPECIFICATION Spec
CONSTANTS
  Handlers = {t1, t2}
  Guests = {a, b}
  Groups = {f, g, h}
  Ops = {"rsvp", "add", "remove", "create", "delete", "detach", "merge"}
  Imports <- AllImports
  MaxCompanionsPerGroup = 1
  Null = Null
  Absent = Absent
  Gone = Gone
SYMMETRY Symmetric
INVARIANTS
  TypeOK
  GuestHasInvitation
PROPERTIES
  SubmissionsAreWhole
  DeletedStayDeleted
VIEW NoHistory
