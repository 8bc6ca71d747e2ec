\* Verification after the first month has been detached.
SPECIFICATION Spec
CONSTANTS
  Company = {c1}
  Writer = {w1, w2}
  NoCompany = NoCompany
  NoWriter = NoWriter
  NoContent = NoContent
  Content = {a}
  MaxId = 3
  Retention = 1
  MaxMonth = 2
SYMMETRY Symmetric
INVARIANTS
  NoFalseAlarm
