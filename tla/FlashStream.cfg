SPECIFICATION FairSpec
CONSTANTS
  PageCount = 2
  MaxWrites = 2
  Request <- MCRequest
INVARIANTS
  TypeOK
  WrittenExactly
  PagesWhole
PROPERTIES
  NoWordOverrun
  WriteEnds
