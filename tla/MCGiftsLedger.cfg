SPECIFICATION Spec
CONSTANTS
  Clients = {c1, c2}
  Gifts = {g1}
  Contributions = {k1, k2}
  Groups = {v1}
  Offers <- AllOffers
  GiftInputs <- AllForms
  MaxAmount = 2
  Null = Null
  Absent = Absent
  Deleted = Deleted
SYMMETRY Symmetric
INVARIANTS
  TypeOK
  LedgerHasReferent
  LockDiscipline
  SoldWithinUnits
  LostConditionMeansLedger
PROPERTIES
  ImplementsLedger
  LedgerAppendOnly
  DeclaredAgainstRowInForce
