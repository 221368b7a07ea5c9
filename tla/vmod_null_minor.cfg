\* One board on the insmod line of a two-board driver; the thread opens
\* only after insmod has returned.
SPECIFICATION Spec
CONSTANTS
  t1 = t1
  t2 = t2
  Threads <- MCOneThread
  MAX_BOARDS = 2
  NumLun = 1
  LunInputs <- MCLunsValid
  CarrierInputs <- MCCarriersOk
  InitFaults = FALSE
  UserFaults = FALSE
  OpenAfterInsmod = TRUE
  FlagInputs <- MCFlagsLive
  Data <- MCDataOne
  MaxCalls = 2
INVARIANT NoOops
