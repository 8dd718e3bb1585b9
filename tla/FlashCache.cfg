SPECIFICATION FairSpec
CONSTANTS
  Addr <- MCAddr
  Build = {v1, v2}
  Plan <- MCPlan
  EraseOf <- MCEraseOf
  DataOf <- MCDataOf
  Blank = Blank
  Garbled = Garbled
  chip = chip
  page = page
  mixed = mixed
INVARIANTS
  TypeOK
  NeverGarbled
  LoadIsExact
PROPERTIES
  HandlersEnd
  ImplementsContract
