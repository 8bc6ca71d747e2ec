\* A revocation of all sessions against a rotation of one of them.
SPECIFICATION Spec
CONSTANTS
  User = {u1}
  Session = {s1, s2, s3}
  Request = {r1, r2}
  NoUser = NoUser
  NoSession = NoSession
  NoRequest = NoRequest
  RefreshTtl = 2
  Grace = 1
  MaxTime = 1
SYMMETRY Symmetric
PROPERTIES
  AllMeansAll
