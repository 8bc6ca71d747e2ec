\* Two requests of one user over three sessions; the clock crosses the grace
\* window, and the tokens of the first tick expire.
SPECIFICATION Spec
CONSTANTS
  User = {u1}
  Session = {s1, s2, s3}
  Request = {r1, r2}
  NoUser = NoUser
  NoSession = NoSession
  NoRequest = NoRequest
  RefreshTtl = 1
  Grace = 1
  MaxTime = 1
SYMMETRY Symmetric
INVARIANTS
  TypeOK
  OneEndPerFamily
  RotationChain
  StandstillIsACircle
  IInv
PROPERTIES
  RevokedIsFinal
  NoReuseVerdictWithinGrace
  DeactivatedStayOut
  ImplementsTokenFamily
