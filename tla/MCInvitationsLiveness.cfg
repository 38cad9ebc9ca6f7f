SPECIFICATION FairSpec
CONSTANTS
  Handlers = {t1, t2}
  Guests = {a, b}
  Groups = {f, g}
  Ops = {"add", "delete", "merge", "primary"}
  Imports <- Families
  MaxCompanionsPerGroup = 1
  Null = Null
  Absent = Absent
  Gone = Gone
PROPERTIES
  EveryRequestAnswered
