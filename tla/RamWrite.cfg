SPECIFICATION LooseSpec
CONSTANTS
  Ram <- MCRam
  Request <- MCFitting
  BufBytes = 8
  MaxRequests = 2
INVARIANT WritesExact
