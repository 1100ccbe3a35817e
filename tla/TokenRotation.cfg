\* Three concurrent requests and three tokens: two logins and an exchange, or one
\* login and two exchanges, which is what a fork would need.
SPECIFICATION Spec
CONSTANTS
  Tokens = {t1, t2, t3}
  Requests = {q1, q2, q3}
  NoToken = NoToken
  NoRequest = NoRequest
SYMMETRY Interchangeable
INVARIANTS
  OneSuccessor
  FamilyHasOneLive
PROPERTIES
  RevocationIsFinal
CHECK_DEADLOCK FALSE
