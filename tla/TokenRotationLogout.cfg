\* A refresh is in flight while all tokens are revoked.
SPECIFICATION Spec
CONSTANTS
  Tokens = {t1, t2}
  Requests = {q1, q2}
  NoToken = NoToken
  NoRequest = NoRequest
INVARIANTS
  LogoutAllEndsLogins
CHECK_DEADLOCK FALSE
