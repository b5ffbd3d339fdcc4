CONSTANTS
  Adr = {a, b}
  ModulCnt = 2
  ChannelCnt = 2
  MaxDev = 4
  MaxMod = 7
  MaxChan = 12
  MaxRoutes = 2
  MaxReboot = 2
SPECIFICATION Spec
INVARIANTS RegisteredOnce
