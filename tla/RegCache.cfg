SPECIFICATION Spec
CONSTANTS
  RegCount = 3
  Value = {x, y}
  ProgWord <- MCProgWord
  Prog <- MCProg
  WordOf <- MCWordOf
  ClobberOf <- MCClobberOf
  NoWord = NoWord
  Junk = Junk
  get_set_u32 = get_set_u32
  write_flash = write_flash
  wLui = wLui
  wLoad = wLoad
  wStore = wStore
  wEbreak = wEbreak
INVARIANTS
  TypeOK
  CacheTellsProgbuf
  RestoreReady
  RunsWithOwnRegisters
