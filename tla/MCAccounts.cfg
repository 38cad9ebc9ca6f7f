SPECIFICATION Spec
CONSTANTS
  Requests = {r1, r2}
  Passwords = {p1, p2}
  Null = Null
INVARIANTS
  TypeOK
  ObligationFollowsPassword
PROPERTIES
  AnswersAreTrue
