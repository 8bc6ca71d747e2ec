\* One tab, four calls.
SPECIFICATION FairSpec
CONSTANTS
  Tab = {x1}
  Call = {c1, c2, c3, c4}
  Session = {s1, s2, s3}
  None = None
INVARIANTS
  IInv
  CookieIsCurrent
  NeverTakenForThief
  LoginSticks
  SpinnerHasCause
PROPERTIES
  LogoutEnds
  SpinnerEnds
CHECK_DEADLOCK FALSE
