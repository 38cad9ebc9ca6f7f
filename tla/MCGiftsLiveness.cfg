SPECIFICATION FairSpec
CONSTANTS
  Clients = {c1, c2}
  Gifts = {g1}
  Contributions = {k1, k2}
  Groups = {}
  Offers <- RaceOffers
  GiftInputs <- RaceForms
  MaxAmount = 2
  Null = Null
  Absent = Absent
  Deleted = Deleted
PROPERTIES
  EveryRequestAnswered
