\* Progress under fairness: two requests may
\* lock the same two rows in opposite orders.
SPECIFICATION FairSpec
CONSTANTS
  User = {u1}
  Session = {s1, s2}
  Request = {r1, r2}
  NoUser = NoUser
  NoSession = NoSession
  NoRequest = NoRequest
  RefreshTtl = 1
  Grace = 0
  MaxTime = 0
PROPERTIES
  RequestsEnd
