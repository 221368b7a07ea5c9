\* Two threads on one board, no init faults, copy_from_user may fail.
SPECIFICATION FairSpec
CONSTANTS
  t1 = t1
  t2 = t2
  Threads <- MCThreads
  MAX_BOARDS = 1
  NumLun = 1
  LunInputs <- MCLunsValid
  CarrierInputs <- MCCarriersOk
  InitFaults = FALSE
  OpenAfterInsmod = TRUE
  FlagInputs <- MCFlagsLive
  Data <- MCDataOne
  MaxCalls = 3
  UserFaults = TRUE
PROPERTY AllIoctlsReturn
