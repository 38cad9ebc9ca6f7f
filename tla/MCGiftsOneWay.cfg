SPECIFICATION Spec
CONSTANTS
  Clients = {c1}
  Gifts = {g1}
  Contributions = {k1}
  Groups = {}
  Offers <- RaceOffers
  GiftInputs <- RaceForms
  MaxAmount = 2
  Null = Null
  Absent = Absent
  Deleted = Deleted
PROPERTIES
  ModerationGoesOneWay
