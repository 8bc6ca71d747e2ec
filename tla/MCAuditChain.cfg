\* Two writers and two companies; the rows of the first month expire.
SPECIFICATION FairSpec
CONSTANTS
  Company = {c1, c2}
  Writer = {w1, w2}
  NoCompany = NoCompany
  NoWriter = NoWriter
  NoContent = NoContent
  Content = {a}
  MaxId = 3
  Retention = 1
  MaxMonth = 2
INVARIANTS
  TypeOK
  ChainUnbroken
  VerificationIsClean
  HoldersNeverWait
  IInv
PROPERTIES
  AppendOnly
  ImplementsLedger
  WritersEnd
