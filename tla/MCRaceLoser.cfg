\* One tab, its start and two requests.
SPECIFICATION Spec
CONSTANTS
  Tab = {x1}
  Call = {c1, c2, c3}
  Session = {s1, s2, s3}
  None = None
INVARIANTS
  WinnerKeepsAccess
CHECK_DEADLOCK FALSE
