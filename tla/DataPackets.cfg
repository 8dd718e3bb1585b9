SPECIFICATION Spec
CONSTANTS
  Ram <- MCRam
  Request <- MCFitting
  BufBytes = 8
  MaxRequests = 2
INVARIANTS
  TypeOK
  ReadsExact
  WritesExact
  NothingElseTouched
  PortClean
